---- MODULE Spec2Model ----
(***************************************************************************)
(* A model of the conversation orchestration engine of src/App.tsx: the   *)
(* chat-configuration builder (initializeChat), the turn pipeline          *)
(* (handleSendMessage and its three pathways), the streaming response      *)
(* parser, the session store (the history effects) and the debounced       *)
(* persistence effect.                                                     *)
(*                                                                         *)
(* Representation.  A JavaScript string is a sequence of one-character     *)
(* strings; a fixed phrase the code only ever compares or displays (a      *)
(* status label, the apology) is a one-element sequence holding the        *)
(* phrase.  An optional field (undefined / null) is <<>>, a present one    *)
(* <<v>>.  Date.now().toString() is the decimal numeral of the clock, an   *)
(* injective function of it, so an id is kept as the clock value itself.   *)
(* React state is read as the latest committed state: every handler runs   *)
(* from the closure of the latest render, and an async handler keeps the   *)
(* values it captured when it was called.  One action is one run of        *)
(* JavaScript between two awaits, with the effects React runs after the    *)
(* commit.                                                                 *)
(***************************************************************************)
EXTENDS Naturals, Sequences, FiniteSets, TLC

VARIABLES messages, isLoading, model, isSearchEnabled, isThinkingEnabled,
          isTurboEnabled, stagedFile, lastGeneratedImage, chatHistory,
          activeChatId, aiRef, chatRef, turns, now, uncaught,
          localStorage, saveTimer, fullTextRef, aspectRatio

vars == <<messages, isLoading, model, isSearchEnabled, isThinkingEnabled,
          isTurboEnabled, stagedFile, lastGeneratedImage, chatHistory,
          activeChatId, aiRef, chatRef, turns, now, uncaught,
          localStorage, saveTimer, fullTextRef, aspectRatio>>

(***************************************************************************)
(* Bounds of the model.                                                    *)
(***************************************************************************)
MaxTurns == 2
MaxClock == 9
MaxNative == 0
MaxPiece == 1
MaxSuggestLines == 4

(***************************************************************************)
(* Optional values.                                                        *)
(***************************************************************************)
None == <<>>
Some(x) == <<x>>
IsSome(o) == o # <<>>
Get(o) == o[1]

Min(a, b) == IF a <= b THEN a ELSE b

(***************************************************************************)
(* Strings.                                                                *)
(***************************************************************************)
OpenTag == <<"<","T","H","O","U","G","H","T","_","P","R","O","C","E","S","S",">">>
CloseTag == <<"<","/","T","H","O","U","G","H","T","_","P","R","O","C","E","S","S",">">>
SuggestionsSentinel == <<"-","-","-","S","U","G","G","E","S","T","I","O","N","S","-","-","-">>
Newline == <<"\n">>

IsWhitespace(c) == c \in {" ", "\n", "\t", "\r"}

\* s.substring(i - 1) in 1-based positions: the suffix from position i.
From(s, i) == SubSeq(s, i, Len(s))

MatchAt(s, pat, i) ==
    /\ i + Len(pat) - 1 <= Len(s)
    /\ SubSeq(s, i, i + Len(pat) - 1) = pat

\* s.indexOf(pat) + 1: the first position where pat occurs, 0 when none.
IndexOf(s, pat) ==
    IF \E i \in 1..Len(s) : MatchAt(s, pat, i)
    THEN CHOOSE i \in 1..Len(s) :
            /\ MatchAt(s, pat, i)
            /\ \A j \in 1..(i - 1) : ~MatchAt(s, pat, j)
    ELSE 0

Includes(s, pat) == IndexOf(s, pat) # 0

\* s.replace(pat, ''): the first occurrence removed.
RemoveFirst(s, pat) ==
    LET i == IndexOf(s, pat)
    IN  IF i = 0 THEN s
        ELSE SubSeq(s, 1, i - 1) \o From(s, i + Len(pat))

\* s.split(pat) for a non-empty pat: the segments between the occurrences.
RECURSIVE Split(_, _)
Split(s, pat) ==
    LET i == IndexOf(s, pat)
    IN  IF i = 0 THEN <<s>>
        ELSE <<SubSeq(s, 1, i - 1)>> \o Split(From(s, i + Len(pat)), pat)

RECURSIVE TrimStart(_)
TrimStart(s) ==
    IF s # <<>> /\ IsWhitespace(Head(s)) THEN TrimStart(Tail(s)) ELSE s

RECURSIVE TrimEnd(_)
TrimEnd(s) ==
    IF s # <<>> /\ IsWhitespace(s[Len(s)])
    THEN TrimEnd(SubSeq(s, 1, Len(s) - 1)) ELSE s

Trim(s) == TrimEnd(TrimStart(s))

NonBlank(s) == Len(Trim(s)) > 0

\* lines.filter(s => s.trim().length > 0)
RECURSIVE FilterNonBlank(_)
FilterNonBlank(lines) ==
    IF lines = <<>> THEN <<>>
    ELSE (IF NonBlank(Head(lines)) THEN <<Head(lines)>> ELSE <<>>)
         \o FilterNonBlank(Tail(lines))

\* arr.slice(0, n)
Take(seq, n) == SubSeq(seq, 1, Min(n, Len(seq)))

\* arr.slice(-n)
TakeLast(seq, n) == SubSeq(seq, Len(seq) - Min(n, Len(seq)) + 1, Len(seq))

(***************************************************************************)
(* Models and the configuration builder.                                   *)
(***************************************************************************)
ModelType == {"gemini-2.5-flash", "gemini-3-pro-preview",
              "imagen-4.0-generate-001", "gemini-2.5-flash-image",
              "gemini-flash-lite-latest", "gemini-1.5-flash"}

chatModels == {"gemini-2.5-flash", "gemini-3-pro-preview",
               "gemini-flash-lite-latest", "gemini-1.5-flash"}

isChatModel(m) == m \in chatModels

supportsThinking(m) ==
    m \in {"gemini-2.5-flash", "gemini-3-pro-preview", "gemini-flash-lite-latest"}

ProBudget == 16000
DefaultBudget == 8192

\* Mutant: one budget for every model.
ThinkingBudgetFlat(m, thinking, turbo) ==
    IF supportsThinking(m)
    THEN IF turbo THEN Some(0)
         ELSE IF thinking THEN Some(DefaultBudget) ELSE None
    ELSE None

\* Mutant: turbo leaves the budget to the provider.
ThinkingBudgetNoTurbo(m, thinking, turbo) ==
    IF supportsThinking(m)
    THEN IF thinking /\ ~turbo
         THEN Some(IF m = "gemini-3-pro-preview" THEN ProBudget ELSE DefaultBudget)
         ELSE None
    ELSE None

\* The thinkingConfig of the configuration initializeChat builds: Some(budget),
\* or None when config.thinkingConfig is left unset.
ThinkingBudget(m, thinking, turbo) ==
    IF supportsThinking(m)
    THEN IF turbo THEN Some(0)
         ELSE IF thinking
              THEN Some(IF m = "gemini-3-pro-preview" THEN ProBudget ELSE DefaultBudget)
              ELSE None
    ELSE None

\* Mutant: turbo drops the tools.
BuildConfigTurboNoTools(m, search, thinking, turbo) ==
    [ cotInstruction |-> thinking,
      tools          |-> IF search /\ isChatModel(m) /\ ~turbo
                         THEN <<"googleSearch">> ELSE <<>>,
      thinkingBudget |-> ThinkingBudget(m, thinking, turbo) ]

\* The config object: the chain-of-thought block of the system instruction,
\* the tool list and the thinking budget.
BuildConfig(m, search, thinking, turbo) ==
    [ cotInstruction |-> thinking,
      tools          |-> IF search /\ isChatModel(m) THEN <<"googleSearch">> ELSE <<>>,
      thinkingBudget |-> ThinkingBudget(m, thinking, turbo) ]

\* messages.map(m => ({role, parts: [{text: m.text}]}))
ToContent(msgs) ==
    [ i \in 1..Len(msgs) |->
        [ role |-> IF msgs[i].sender = "user" THEN "user" ELSE "model",
          text |-> msgs[i].text ] ]

(***************************************************************************)
(* Messages and sessions.                                                  *)
(***************************************************************************)
ApologyText == <<"Maaf, terjadi kesalahan saat memproses permintaan Anda. Silakan coba lagi.">>
EditCompleteText == <<"Image edit complete.">>
GenerateFailedText == <<"Failed to generate image.">>
GeneratedImageText(text) == <<"Generated image for: \"">> \o text \o <<"\"">>

\* The data URL fileToDataURL yields for the staged file, and the data URL
\* built from a provider image payload.  Both start with 'data:'.
UploadedDataUrl == "data:upload"
GeneratedDataUrl == "data:image/png;base64"
StartsWithData(url) == url \in {UploadedDataUrl, GeneratedDataUrl}

\* { id, text, sender } of handleSendMessage; the other fields are unset.
UserMessage(id, text) ==
    [ id |-> id, text |-> text, sender |-> "user", thinkingText |-> None,
      isStreaming |-> None, model |-> None, suggestions |-> None,
      imageUrl |-> None, uploadedImageUrl |-> None, statusText |-> None,
      isThinkingMode |-> None ]

\* initialBotMessage of handleSendMessage.
InitialBotMessage(id, m, thinking) ==
    [ id |-> id, text |-> <<>>, sender |-> "bot", thinkingText |-> Some(<<>>),
      isStreaming |-> Some(TRUE), model |-> Some(m), suggestions |-> None,
      imageUrl |-> None, uploadedImageUrl |-> None,
      statusText |-> Some("Initializing..."),
      isThinkingMode |-> Some(thinking /\ supportsThinking(m)) ]

\* prev.map(msg => msg.id === id ? F(msg) : msg)
UpdateById(msgs, id, F(_)) ==
    [ i \in 1..Len(msgs) |-> IF msgs[i].id = id THEN F(msgs[i]) ELSE msgs[i] ]

IsUser(m) == m.sender = "user"

TitleLength == 40

\* Mutant: the title is cut without the ellipsis.
TitleNoEllipsis(text) == SubSeq(text, 1, Min(TitleLength, Len(text)))

\* text.substring(0, 40) + (text.length > 40 ? '...' : '')
Title(text) ==
    SubSeq(text, 1, Min(TitleLength, Len(text)))
        \o (IF Len(text) > TitleLength THEN <<".", ".", ".">> ELSE <<>>)

\* chatHistory.find(s => s.id === id): the index of the first match, 0 if none.
FindSession(hist, id) ==
    IF \E i \in 1..Len(hist) : hist[i].id = id
    THEN CHOOSE i \in 1..Len(hist) :
            /\ hist[i].id = id
            /\ \A j \in 1..(i - 1) : hist[j].id # id
    ELSE 0

(***************************************************************************)
(* The state as a record, so that a handler is a function from state to    *)
(* state and the effects compose with it.                                  *)
(***************************************************************************)
St ==
    [ messages |-> messages, isLoading |-> isLoading, model |-> model,
      isSearchEnabled |-> isSearchEnabled,
      isThinkingEnabled |-> isThinkingEnabled,
      isTurboEnabled |-> isTurboEnabled, stagedFile |-> stagedFile,
      lastGeneratedImage |-> lastGeneratedImage, chatHistory |-> chatHistory,
      activeChatId |-> activeChatId, aiRef |-> aiRef, chatRef |-> chatRef,
      turns |-> turns, now |-> now, uncaught |-> uncaught,
      localStorage |-> localStorage, saveTimer |-> saveTimer,
      fullTextRef |-> fullTextRef, aspectRatio |-> aspectRatio ]

\* The commit of a render: c is the value of s, computed once.
Commit(s) ==
  \E c \in {s} :
    /\ messages' = c.messages
    /\ isLoading' = c.isLoading
    /\ model' = c.model
    /\ isSearchEnabled' = c.isSearchEnabled
    /\ isThinkingEnabled' = c.isThinkingEnabled
    /\ isTurboEnabled' = c.isTurboEnabled
    /\ stagedFile' = c.stagedFile
    /\ lastGeneratedImage' = c.lastGeneratedImage
    /\ chatHistory' = c.chatHistory
    /\ activeChatId' = c.activeChatId
    /\ aiRef' = c.aiRef
    /\ chatRef' = c.chatRef
    /\ turns' = c.turns
    /\ now' = c.now
    /\ uncaught' = c.uncaught
    /\ localStorage' = c.localStorage
    /\ saveTimer' = c.saveTimer
    /\ fullTextRef' = c.fullTextRef
    /\ aspectRatio' = c.aspectRatio

(***************************************************************************)
(* initializeChat and the effects.                                         *)
(***************************************************************************)
\* initializeChat(history): replaces chatRef.current, unless the client is
\* missing or the model is not a chat model.
InitializeChat(s, history) ==
    IF ~s.aiRef \/ ~isChatModel(s.model) THEN s
    ELSE [s EXCEPT !.chatRef =
            Some([ model   |-> s.model,
                   config  |-> BuildConfig(s.model, s.isSearchEnabled,
                                           s.isThinkingEnabled, s.isTurboEnabled),
                   history |-> history ])]

ConfigDeps(s) ==
    <<s.model, s.isSearchEnabled, s.isThinkingEnabled, s.isTurboEnabled>>

\* Mutant: the chat is not re-initialized while a turn is busy.
ReinitSkipsWhileLoading(old, s) ==
    IF ConfigDeps(old) # ConfigDeps(s) /\ ~s.isLoading
    THEN InitializeChat(s, ToContent(s.messages))
    ELSE s

\* The effect that re-initializes the chat when the model or a toggle changed.
ReinitEffect(old, s) ==
    IF ConfigDeps(old) # ConfigDeps(s)
    THEN InitializeChat(s, ToContent(s.messages))
    ELSE s

\* Mutant: the update is written to every session.
UpdateAllSessions(prev, id, msgs, t) ==
    LET k == FindSession(prev, id)
    IN  IF k # 0 /\ prev[k].messages = msgs THEN prev
        ELSE [ i \in 1..Len(prev) |->
                 [prev[i] EXCEPT !.messages = msgs, !.timestamp = t] ]

\* setChatHistory(prev => ...) of the active-session branch.  JSON.stringify
\* equality of two message lists is equality of their defined fields.
UpdateActiveSession(prev, id, msgs, t) ==
    LET k == FindSession(prev, id)
    IN  IF k # 0 /\ prev[k].messages = msgs THEN prev
        ELSE [ i \in 1..Len(prev) |->
                 IF prev[i].id = id
                 THEN [prev[i] EXCEPT !.messages = msgs, !.timestamp = t]
                 ELSE prev[i] ]

\* Mutant: the pending timer is not cleared when the effect runs again.
RestartNoCancel(timers, hist) == Append(timers, hist)

\* The persistence effect's cleanup and re-run on a new chatHistory array:
\* clearTimeout of the pending timer, then setTimeout of a callback that
\* holds the new array.
RestartTimer(timers, hist) == <<hist>>

\* Mutant: the pointer is set from a second reading of the clock.
SaveEffectSecondReading(s) ==
    IF s.isLoading THEN s
    ELSE LET userMessages == SelectSeq(s.messages, IsUser)
         IN  IF userMessages = <<>> THEN s
             ELSE IF IsSome(s.activeChatId)
             THEN LET k == FindSession(s.chatHistory, Get(s.activeChatId))
                      updated == UpdateActiveSession(
                          s.chatHistory, Get(s.activeChatId), s.messages, s.now)
                  IN  IF k # 0 /\ s.chatHistory[k].messages = s.messages THEN s
                      ELSE [s EXCEPT
                              !.chatHistory = updated,
                              !.saveTimer = RestartTimer(@, updated)]
             ELSE LET appended == Append(s.chatHistory,
                         [ id |-> s.now, title |-> Title(userMessages[1].text),
                           messages |-> s.messages, timestamp |-> s.now ])
                  IN  [s EXCEPT
                         !.chatHistory = appended,
                         !.activeChatId = Some(s.now + 1),
                         !.saveTimer = RestartTimer(@, appended)]

\* The history-saving effect: nothing while a turn is loading or without a
\* user message; otherwise the active session is updated, or a session is
\* created and made active.  A new chatHistory array restarts the save timer.
SaveEffect(s) ==
    IF s.isLoading THEN s
    ELSE LET userMessages == SelectSeq(s.messages, IsUser)
         IN  IF userMessages = <<>> THEN s
             ELSE IF IsSome(s.activeChatId)
             THEN LET k == FindSession(s.chatHistory, Get(s.activeChatId))
                      updated == UpdateActiveSession(
                          s.chatHistory, Get(s.activeChatId), s.messages, s.now)
                  IN  IF k # 0 /\ s.chatHistory[k].messages = s.messages THEN s
                      ELSE [s EXCEPT
                              !.chatHistory = updated,
                              !.saveTimer = RestartTimer(@, updated)]
             ELSE LET appended == Append(s.chatHistory,
                         [ id |-> s.now, title |-> Title(userMessages[1].text),
                           messages |-> s.messages, timestamp |-> s.now ])
                  IN  [s EXCEPT
                         !.chatHistory = appended,
                         !.activeChatId = Some(s.now),
                         !.saveTimer = RestartTimer(@, appended)]

\* The effects React runs after a commit: `touched` says that setMessages was
\* called (a new array, even with equal content).
RunEffects(old, s, touched) ==
    LET s1 == ReinitEffect(old, s)
        s2 == IF touched \/ old.messages # s1.messages
                 \/ old.isLoading # s1.isLoading
                 \/ old.activeChatId # s1.activeChatId
              THEN SaveEffect(s1) ELSE s1
    IN  IF s2.activeChatId # s1.activeChatId THEN SaveEffect(s2) ELSE s2

(***************************************************************************)
(* Handlers of the header, the input box and the sidebar.                  *)
(***************************************************************************)
TheFile == "file"

\* Mutant: the handler does not compare the new model with the current one.
handleModelChangeUnguarded(s, newModel) ==
    LET newIsChat == newModel \in chatModels
        resetAll == ~newIsChat
        resetThinking == ~newIsChat \/ newModel = "gemini-1.5-flash"
    IN  [s EXCEPT
           !.model = newModel,
           !.messages = <<>>,
           !.isLoading = FALSE,
           !.stagedFile = None,
           !.lastGeneratedImage = None,
           !.activeChatId = None,
           !.isSearchEnabled = IF resetAll THEN FALSE ELSE @,
           !.isThinkingEnabled = IF resetThinking THEN FALSE ELSE @,
           !.isTurboEnabled = IF resetThinking THEN FALSE ELSE @]

handleModelChangeF(s, newModel) ==
    IF s.model = newModel THEN s
    ELSE LET newIsChat == newModel \in chatModels
             resetAll == ~newIsChat
             resetThinking == ~newIsChat \/ newModel = "gemini-1.5-flash"
         IN  [s EXCEPT
                !.model = newModel,
                !.messages = <<>>,
                !.isLoading = FALSE,
                !.stagedFile = None,
                !.lastGeneratedImage = None,
                !.activeChatId = None,
                !.isSearchEnabled = IF resetAll THEN FALSE ELSE @,
                !.isThinkingEnabled = IF resetThinking THEN FALSE ELSE @,
                !.isTurboEnabled = IF resetThinking THEN FALSE ELSE @]

handleFileChangeF(s) ==
    [s EXCEPT !.stagedFile = Some(TheFile), !.lastGeneratedImage = None]

handleClearStagedFileF(s) == [s EXCEPT !.stagedFile = None]

\* dataUrlToFile is awaited before the first setState, so the handler acts in
\* one run at the time the fetch resolves.
handleStageImageForEditingF(s) ==
    [s EXCEPT !.stagedFile = Some(TheFile),
              !.model = "gemini-2.5-flash-image",
              !.lastGeneratedImage = None]

onToggleSearchF(s) == [s EXCEPT !.isSearchEnabled = ~@]

onToggleThinkingF(s) ==
    [s EXCEPT !.isThinkingEnabled = ~@,
              !.isTurboEnabled = IF ~s.isThinkingEnabled THEN FALSE ELSE @]

\* Mutant: turbo does not clear reasoning.
onToggleTurboKeepsThinking(s) == [s EXCEPT !.isTurboEnabled = ~@]

onToggleTurboF(s) ==
    [s EXCEPT !.isTurboEnabled = ~@,
              !.isThinkingEnabled = IF ~s.isTurboEnabled THEN FALSE ELSE @]

\* Mutant: the chat is re-created without the session's history.
handleLoadChatNoHistory(s, sessionId) ==
    LET k == FindSession(s.chatHistory, sessionId)
    IN  IF k = 0 THEN s
        ELSE LET session == s.chatHistory[k]
                 s1 == [s EXCEPT !.messages = session.messages,
                                 !.activeChatId = Some(session.id)]
             IN  IF s.aiRef /\ isChatModel(s.model)
                 THEN InitializeChat(s1, <<>>)
                 ELSE s1

handleLoadChatF(s, sessionId) ==
    LET k == FindSession(s.chatHistory, sessionId)
    IN  IF k = 0 THEN s
        ELSE LET session == s.chatHistory[k]
                 s1 == [s EXCEPT !.messages = session.messages,
                                 !.activeChatId = Some(session.id)]
             IN  IF s.aiRef /\ isChatModel(s.model)
                 THEN InitializeChat(s1, ToContent(session.messages))
                 ELSE s1

\* Sidebar.handleLoadChatClick: the active session is not loaded again.
handleLoadChatClickF(s, id) ==
    IF Some(id) = s.activeChatId THEN s ELSE handleLoadChatF(s, id)

handleNewChatF(s) ==
    InitializeChat([s EXCEPT !.messages = <<>>, !.activeChatId = None,
                             !.stagedFile = None, !.lastGeneratedImage = None],
                   <<>>)

(***************************************************************************)
(* handleSendMessage: one record per call that was accepted, holding the   *)
(* values the call captured and its locals; pc is the await it is at.      *)
(***************************************************************************)
DoneTurn ==
    [ pc |-> "done", text |-> <<>>, model |-> "gemini-2.5-flash",
      fileToSend |-> FALSE, continuousEditImage |-> None,
      isSearchEnabled |-> FALSE, isThinkingEnabled |-> FALSE,
      isTurboEnabled |-> FALSE, userMessageId |-> 0, botMessageId |-> 0,
      response |-> <<>>, delivered |-> 0, native |-> 0,
      fullResponseText |-> <<>>,
      fullThinkingText |-> <<>>, isInsideThinkingBlock |-> FALSE,
      enhancedPrompt |-> <<>>, aspectRatio |-> "1:1" ]

\* Mutant: the previously generated image is not captured.
NewTurnNoPrior(s, text) ==
    [ DoneTurn EXCEPT
        !.pc = "read", !.text = text, !.model = s.model,
        !.fileToSend = IsSome(s.stagedFile),
        !.isSearchEnabled = s.isSearchEnabled,
        !.isThinkingEnabled = s.isThinkingEnabled,
        !.isTurboEnabled = s.isTurboEnabled,
        !.aspectRatio = s.aspectRatio,
        !.userMessageId = s.now ]

\* The values the call captures when it is made.
NewTurn(s, text) ==
    [ DoneTurn EXCEPT
        !.pc = "read", !.text = text, !.model = s.model,
        !.fileToSend = IsSome(s.stagedFile),
        !.continuousEditImage =
            IF IsSome(s.stagedFile) THEN None ELSE s.lastGeneratedImage,
        !.isSearchEnabled = s.isSearchEnabled,
        !.isThinkingEnabled = s.isThinkingEnabled,
        !.isTurboEnabled = s.isTurboEnabled,
        !.aspectRatio = s.aspectRatio,
        !.userMessageId = s.now ]

\* The reference image of the image-edit request: the attachment when there
\* is one, otherwise the previously generated image.
imagePart(t) == IF t.fileToSend THEN Some(TheFile) ELSE t.continuousEditImage

SetStatus(msgs, id, label) ==
    UpdateById(msgs, id, LAMBDA m : [m EXCEPT !.statusText = Some(label)])

\* The catch block: the placeholder becomes the apology.
CatchF(s, i) ==
    [s EXCEPT !.messages = UpdateById(@, s.turns[i].botMessageId,
        LAMBDA m : [m EXCEPT !.isStreaming = Some(FALSE), !.text = ApologyText])]

\* Mutant: the busy flag is not cleared.
FinallyKeepsBusy(s, i) == [s EXCEPT !.turns[i] = DoneTurn]

\* The finally block, and the end of the call.
FinallyF(s, i) == [s EXCEPT !.isLoading = FALSE, !.turns[i] = DoneTurn]

initialStatus(t) ==
    IF t.isSearchEnabled THEN "Searching the web..."
    ELSE IF t.isTurboEnabled THEN "Turbo Mode (Instant)..."
    ELSE IF t.isThinkingEnabled THEN "Initializing CoT Logic..."
    ELSE IF t.fileToSend THEN "Reading attachment..."
    ELSE "Thinking..."

\* From setIsLoading(true) to the first await of the pathway taken.
BeginF(s, i) ==
    LET t == s.turns[i]
        botId == s.now + 1
        userMessage ==
            [UserMessage(t.userMessageId, t.text) EXCEPT
                !.uploadedImageUrl =
                    IF t.fileToSend THEN Some(UploadedDataUrl) ELSE None]
        s1 == [s EXCEPT
                 !.isLoading = TRUE,
                 !.messages = @ \o <<userMessage,
                     InitialBotMessage(botId, t.model, t.isThinkingEnabled)>>,
                 !.stagedFile = None,
                 !.fullTextRef = <<>>,
                 !.turns[i].botMessageId = botId]
        at(label, pc) ==
            [s1 EXCEPT !.messages = SetStatus(@, botId, label),
                       !.turns[i].pc = pc]
    IN  IF ~s.aiRef THEN FinallyF(CatchF(s1, i), i)
        ELSE IF t.model = "gemini-2.5-flash-image"
                /\ (t.fileToSend \/ IsSome(t.continuousEditImage))
        THEN at("Locking identity features & analyzing structure...", "edit")
        ELSE IF t.model = "imagen-4.0-generate-001"
        THEN at("Optimizing prompt for Ultra Quality (8k)...", "img_opt")
        ELSE IF isChatModel(t.model) /\ IsSome(s.chatRef)
        THEN at(initialStatus(t), "chat_open")
        ELSE FinallyF(s1, i)

\* Mutant: the guard does not look at the busy flag.
SendRejectedNoBusy(s, text) == Trim(text) = <<>> /\ ~IsSome(s.stagedFile)

\* The guard of handleSendMessage.
SendRejected(s, text) ==
    s.isLoading \/ (Trim(text) = <<>> /\ ~IsSome(s.stagedFile))

\* The call up to its first await: with a staged file that is the read of the
\* file (before isLoading is set), without one the pathway's first await.
handleSendMessageF(s, text) ==
    IF SendRejected(s, text) THEN s
    ELSE LET i == Len(s.turns) + 1
             s1 == [s EXCEPT !.turns = Append(@, NewTurn(s, text))]
         IN  IF IsSome(s.stagedFile) THEN s1 ELSE BeginF(s1, i)

(***************************************************************************)
(* The image pathways.  The awaits between two writes of the state are     *)
(* taken in one step: nothing is read or written between them.             *)
(***************************************************************************)
\* The suggestion sub-call's provider call: None when it throws, otherwise the
\* text of its response.
PostTaskOutcomes == { Some(<<"s">>) }

SuggestionCap == 3

\* Mutant: every line of the response is returned.
generatePostTaskSuggestionsAll(client, outcome) ==
    IF ~client THEN <<>>
    ELSE IF IsSome(outcome) /\ Get(outcome) # <<>>
         THEN Split(Get(outcome), Newline)
         ELSE <<>>

\* generatePostTaskSuggestions: [] without a client, when the call throws and
\* when the response has no text; otherwise the first three non-blank lines.
generatePostTaskSuggestions(client, outcome) ==
    IF ~client THEN <<>>
    ELSE IF IsSome(outcome) /\ Get(outcome) # <<>>
         THEN Take(FilterNonBlank(Split(Get(outcome), Newline)), SuggestionCap)
         ELSE <<>>

\* The request of the generation call.
GenerateImagesRequest(t) ==
    [ model |-> "imagen-4.0-generate-001", prompt |-> t.enhancedPrompt,
      numberOfImages |-> 1, aspectRatio |-> t.aspectRatio ]

\* A description the edit model may return beside or instead of the image.
Descriptions == { <<>> }

\* The image-edit pathway after its awaits: `image` is the inline image of the
\* response (None when there is none), `description` its text.
EditDoneF(s, i, image, description, suggestions) ==
    LET t == s.turns[i]
        s1 == [s EXCEPT
                 !.messages = UpdateById(@, t.botMessageId, LAMBDA m :
                     [m EXCEPT !.isStreaming = Some(FALSE),
                               !.text = IF description # <<>> THEN description
                                        ELSE EditCompleteText,
                               !.imageUrl = image,
                               !.suggestions = Some(suggestions)]),
                 !.lastGeneratedImage = IF IsSome(image) THEN image ELSE @]
    IN  FinallyF(s1, i)

\* Mutant: an enhancement that fails or returns nothing ends the pathway in
\* the catch block.
ImgOptDoneThrows(s, i, enhanced) ==
    IF enhanced = <<>> THEN FinallyF(CatchF(s, i), i)
    ELSE [s EXCEPT
            !.turns[i].enhancedPrompt = enhanced,
            !.turns[i].pc = "img_gen",
            !.messages = SetStatus(@, s.turns[i].botMessageId,
                                   "Rendering high-fidelity image...")]

\* The prompt-enhancement sub-call has returned or failed: `enhanced` is its
\* trimmed text, <<>> when it failed or returned nothing.
ImgOptDoneF(s, i, enhanced) ==
    [s EXCEPT
       !.turns[i].enhancedPrompt =
           IF enhanced # <<>> THEN enhanced ELSE s.turns[i].text,
       !.turns[i].pc = "img_gen",
       !.messages = SetStatus(@, s.turns[i].botMessageId,
                              "Rendering high-fidelity image...")]

ImgGenDoneF(s, i, image, suggestions) ==
    LET t == s.turns[i]
        s1 == [s EXCEPT
                 !.messages = UpdateById(@, t.botMessageId, LAMBDA m :
                     [m EXCEPT !.isStreaming = Some(FALSE),
                               !.text = IF IsSome(image)
                                        THEN GeneratedImageText(t.text)
                                        ELSE GenerateFailedText,
                               !.imageUrl = image,
                               !.suggestions = Some(suggestions)]),
                 !.lastGeneratedImage = IF IsSome(image) THEN image ELSE @]
    IN  FinallyF(s1, i)

(***************************************************************************)
(* The streaming chat pathway.                                             *)
(***************************************************************************)
StatusThreshold == 50

\* One plain-text part, as the stream loop handles it.
ParseTextPart(t, content) ==
    IF ~t.isThinkingEnabled
    THEN [t EXCEPT !.fullResponseText = @ \o content]
    ELSE LET hasOpen == Includes(content, OpenTag)
             inside == IF hasOpen THEN TRUE ELSE t.isInsideThinkingBlock
             processedContent ==
                 IF hasOpen THEN RemoveFirst(content, OpenTag) ELSE content
         IN  IF Includes(content, CloseTag)
             THEN LET parts == Split(processedContent, CloseTag)
                      thought == parts[1]
                      \* `rest` is undefined when the split has one segment
                      rest == IF Len(parts) >= 2 THEN parts[2] ELSE <<"undefined">>
                  IN  [t EXCEPT !.isInsideThinkingBlock = FALSE,
                                !.fullThinkingText = @ \o thought,
                                !.fullResponseText = @ \o rest]
             ELSE IF inside
                  THEN [t EXCEPT !.isInsideThinkingBlock = inside,
                                 !.fullThinkingText = @ \o processedContent]
                  ELSE [t EXCEPT !.isInsideThinkingBlock = inside,
                                 !.fullResponseText = @ \o processedContent]

\* Mutant: a native thought part goes through the tag handling like a text.
ProcessPartTagged(t, part) ==
    IF part.thought # <<>> THEN ParseTextPart(t, part.thought)
    ELSE IF part.text # <<>> THEN ParseTextPart(t, part.text)
    ELSE t

\* One part of a chunk: a native thought part, or a text part.
ProcessPart(t, part) ==
    IF part.thought # <<>>
    THEN [t EXCEPT !.fullThinkingText = @ \o part.thought]
    ELSE IF part.text # <<>> THEN ParseTextPart(t, part.text)
    ELSE t

RECURSIVE ProcessParts(_, _)
ProcessParts(t, parts) ==
    IF parts = <<>> THEN t
    ELSE ProcessParts(ProcessPart(t, Head(parts)), Tail(parts))

\* Mutant: the label of the search comes first, the empty label last.
currentStatusSearchFirst(t) ==
    IF t.isSearchEnabled THEN "Analyzing sources..."
    ELSE IF t.isThinkingEnabled /\ t.fullResponseText = <<>>
            /\ t.fullThinkingText # <<>> THEN "Reasoning..."
    ELSE IF t.isThinkingEnabled /\ t.fullThinkingText = <<>>
    THEN "Allocating logic tokens..."
    ELSE IF Len(t.fullResponseText) > StatusThreshold THEN ""
    ELSE "Typing..."

currentStatus(t) ==
    IF Len(t.fullResponseText) > StatusThreshold THEN ""
    ELSE IF t.isSearchEnabled THEN "Analyzing sources..."
    ELSE IF t.isThinkingEnabled /\ t.fullResponseText = <<>>
            /\ t.fullThinkingText # <<>> THEN "Reasoning..."
    ELSE IF t.isThinkingEnabled /\ t.fullThinkingText = <<>>
    THEN "Allocating logic tokens..."
    ELSE "Typing..."

shouldUseThinkingMode(t) == t.isThinkingEnabled /\ supportsThinking(t.model)

\* sendMessageStream has resolved: the provider will stream `response`, with
\* `native` native thought parts beside it.
ChatOpenF(s, i, response, native) ==
    [s EXCEPT !.turns[i].pc = "chat_stream",
              !.turns[i].response = response,
              !.turns[i].delivered = 0,
              !.turns[i].native = native]

NativeThought == <<"t">>

\* The parts of a chunk that carries the next k characters of the response
\* as a text part, after a native thought part when withThought.
ChunkParts(t, k, withThought) ==
    (IF withThought THEN <<[thought |-> NativeThought, text |-> <<>>]>> ELSE <<>>)
    \o (IF k > 0
        THEN <<[thought |-> <<>>,
                text |-> SubSeq(t.response, t.delivered + 1, t.delivered + k)]>>
        ELSE <<>>)

\* Mutant: the message shows what this chunk alone has given.
StreamChunkRewrites(s, i, k, withThought) ==
    LET t0 == s.turns[i]
        t1 == ProcessParts([t0 EXCEPT !.fullResponseText = <<>>,
                                      !.fullThinkingText = <<>>],
                           ChunkParts(t0, k, withThought))
        t2 == [t1 EXCEPT !.delivered = @ + k,
                         !.native = IF withThought THEN @ - 1 ELSE @]
    IN  [s EXCEPT
           !.turns[i] = t2,
           !.fullTextRef = t2.fullResponseText,
           !.messages = UpdateById(@, t0.botMessageId, LAMBDA m :
               [m EXCEPT !.text = t2.fullResponseText,
                         !.thinkingText = Some(t2.fullThinkingText),
                         !.statusText = Some(currentStatus(t2)),
                         !.isThinkingMode = Some(shouldUseThinkingMode(t2))])]

\* One iteration of the for-await loop.
StreamChunkF(s, i, k, withThought) ==
    LET t0 == s.turns[i]
        t1 == ProcessParts(t0, ChunkParts(t0, k, withThought))
        t2 == [t1 EXCEPT !.delivered = @ + k,
                         !.native = IF withThought THEN @ - 1 ELSE @]
    IN  [s EXCEPT
           !.turns[i] = t2,
           !.fullTextRef = t2.fullResponseText,
           !.messages = UpdateById(@, t0.botMessageId, LAMBDA m :
               [m EXCEPT !.text = t2.fullResponseText,
                         !.thinkingText = Some(t2.fullThinkingText),
                         !.statusText = Some(currentStatus(t2)),
                         !.isThinkingMode = Some(shouldUseThinkingMode(t2))])]

\* The suggestions the final answer carries: the non-blank lines of the
\* trimmed segment after the first sentinel.
FinalSuggestions(fullResponseText) ==
    LET parts == Split(fullResponseText, SuggestionsSentinel)
        suggestionText ==
            IF Len(parts) >= 2 /\ parts[2] # <<>> THEN Trim(parts[2]) ELSE <<>>
    IN  FilterNonBlank(Split(suggestionText, Newline))

\* Mutant: the answer is not trimmed.
FinalTextUntrimmed(fullResponseText) ==
    Split(fullResponseText, SuggestionsSentinel)[1]

FinalText(fullResponseText) ==
    Trim(Split(fullResponseText, SuggestionsSentinel)[1])

\* After the loop: the stream has closed.
StreamEndF(s, i) ==
    LET t == s.turns[i]
        suggestions == FinalSuggestions(t.fullResponseText)
        s1 == [s EXCEPT
                 !.messages = UpdateById(@, t.botMessageId, LAMBDA m :
                     [m EXCEPT !.isStreaming = Some(FALSE),
                               !.text = FinalText(t.fullResponseText),
                               !.thinkingText = Some(t.fullThinkingText),
                               !.suggestions = IF Len(suggestions) > 0
                                               THEN Some(suggestions) ELSE None,
                               !.statusText = None,
                               !.isThinkingMode = Some(shouldUseThinkingMode(t))])]
    IN  FinallyF(s1, i)

(***************************************************************************)
(* The persistence effect: the timer set when chatHistory changes.         *)
(***************************************************************************)
FallbackKeep == 5

\* Mutant: only the generated image is deleted, an attachment is kept.
StripGeneratedOnly(m) ==
    [m EXCEPT
       !.imageUrl = IF IsSome(@) /\ StartsWithData(Get(@)) THEN None ELSE @]

\* The primary write's payload: data URLs deleted from every message.
StripDataUrls(m) ==
    [m EXCEPT
       !.imageUrl = IF IsSome(@) /\ StartsWithData(Get(@)) THEN None ELSE @,
       !.uploadedImageUrl = IF IsSome(@) /\ StartsWithData(Get(@)) THEN None ELSE @]

\* The fallback's payload: both image fields dropped.
StripImages(m) == [m EXCEPT !.imageUrl = None, !.uploadedImageUrl = None]

safeHistory(hist) ==
    [ i \in 1..Len(hist) |->
        [hist[i] EXCEPT !.messages =
            [ j \in 1..Len(hist[i].messages) |-> StripDataUrls(hist[i].messages[j]) ]] ]

emergencyHistory(hist) ==
    LET last == TakeLast(hist, FallbackKeep)
    IN  [ i \in 1..Len(last) |->
            [last[i] EXCEPT !.messages =
                [ j \in 1..Len(last[i].messages) |-> StripImages(last[i].messages[j]) ]] ]

\* Mutant: the fallback write is not guarded, so its failure escapes.
PersistUnguarded(s, primaryOk, fallbackOk) ==
    [s EXCEPT
       !.saveTimer = Tail(@),
       !.uncaught = IF ~primaryOk /\ ~fallbackOk THEN TRUE ELSE @,
       !.localStorage =
           IF primaryOk THEN Some(safeHistory(Head(s.saveTimer)))
           ELSE IF fallbackOk THEN Some(emergencyHistory(Head(s.saveTimer)))
           ELSE @]

\* Mutant: the fallback trims the list in memory as well.
PersistTrimsMemory(s, primaryOk, fallbackOk) ==
    [s EXCEPT
       !.saveTimer = Tail(@),
       !.chatHistory = IF ~primaryOk /\ fallbackOk
                       THEN TakeLast(@, FallbackKeep) ELSE @,
       !.localStorage =
           IF primaryOk THEN Some(safeHistory(Head(s.saveTimer)))
           ELSE IF fallbackOk THEN Some(emergencyHistory(Head(s.saveTimer)))
           ELSE @]

\* The callback of the oldest pending timer, which works on the chatHistory
\* array its effect run held: primaryOk and fallbackOk say whether the store
\* takes the write (setItem throws when the quota is exceeded).  The second
\* catch only logs.
PersistF(s, primaryOk, fallbackOk) ==
    [s EXCEPT
       !.saveTimer = Tail(@),
       !.localStorage =
           IF primaryOk THEN Some(safeHistory(Head(s.saveTimer)))
           ELSE IF fallbackOk THEN Some(emergencyHistory(Head(s.saveTimer)))
           ELSE @]

(***************************************************************************)
(* The state after mount: the stored history was absent, the client was    *)
(* created if the API key is set, the chat was initialized with an empty   *)
(* history and the first save timer is pending.                            *)
(***************************************************************************)
MountState(hasKey) ==
    InitializeChat(
        [ messages |-> <<>>, isLoading |-> FALSE, model |-> "gemini-2.5-flash",
          isSearchEnabled |-> FALSE, isThinkingEnabled |-> FALSE,
          isTurboEnabled |-> FALSE, stagedFile |-> None,
          lastGeneratedImage |-> None, chatHistory |-> <<>>,
          activeChatId |-> None, aiRef |-> hasKey, chatRef |-> None,
          turns |-> <<>>, now |-> 1, uncaught |-> FALSE,
          localStorage |-> None, saveTimer |-> << <<>> >>, fullTextRef |-> <<>>,
          aspectRatio |-> "1:1" ],
        <<>>)

\* Commit without primes: the state is s.
StateIs(s) ==
    /\ messages = s.messages
    /\ isLoading = s.isLoading
    /\ model = s.model
    /\ isSearchEnabled = s.isSearchEnabled
    /\ isThinkingEnabled = s.isThinkingEnabled
    /\ isTurboEnabled = s.isTurboEnabled
    /\ stagedFile = s.stagedFile
    /\ lastGeneratedImage = s.lastGeneratedImage
    /\ chatHistory = s.chatHistory
    /\ activeChatId = s.activeChatId
    /\ aiRef = s.aiRef
    /\ chatRef = s.chatRef
    /\ turns = s.turns
    /\ now = s.now
    /\ uncaught = s.uncaught
    /\ localStorage = s.localStorage
    /\ saveTimer = s.saveTimer
    /\ fullTextRef = s.fullTextRef
    /\ aspectRatio = s.aspectRatio

Init == \E hasKey \in BOOLEAN : StateIs(MountState(hasKey))

(***************************************************************************)
(* The mount itself.  Before it the store holds what earlier runs or       *)
(* anything else left under the key; a text that is not JSON is a value    *)
(* that no list of sessions equals.                                        *)
(***************************************************************************)
Unparseable == << [ text |-> <<"{">> ] >>

\* JSON.parse returns: the text is a list of sessions.
Parses(text) == \A i \in 1..Len(text) : "id" \in DOMAIN text[i]

\* The component before its effects have run.
Unmounted(stored) ==
    [MountState(FALSE) EXCEPT
        !.now = 0, !.chatRef = None, !.saveTimer = <<>>, !.localStorage = stored]

\* Mutant: the parse is not guarded, so its error ends the mount effect.
mountParseEscapes(s, hasKey) ==
    LET stored == s.localStorage
        readable == IsSome(stored) /\ Parses(Get(stored))
        loaded == IF readable THEN Get(stored) ELSE <<>>
        failed == IsSome(stored) /\ ~Parses(Get(stored))
    IN  InitializeChat(
            [s EXCEPT !.now = 1,
                      !.uncaught = IF failed THEN TRUE ELSE @,
                      !.aiRef = IF failed THEN FALSE ELSE hasKey,
                      !.chatHistory = loaded,
                      !.saveTimer = RestartTimer(@, loaded)],
            <<>>)

\* The effects of the first render: the stored history is read and parsed
\* under a try, the client is created when the key is set, the chat is
\* initialized, and the persistence effect leaves its timer on the list.
mountF(s, hasKey) ==
    LET stored == s.localStorage
        readable == IsSome(stored) /\ Parses(Get(stored))
        loaded == IF readable THEN Get(stored) ELSE <<>>
    IN  InitializeChat(
            [s EXCEPT !.now = 1,
                      !.aiRef = hasKey,
                      !.chatHistory = loaded,
                      !.saveTimer = RestartTimer(@, loaded)],
            <<>>)

\* A handler's run: the new state, the effects, the commit.
Run(new, touched) ==
    \E n \in {new} : Commit(RunEffects(St, n, touched))

(***************************************************************************)
(* Inputs.                                                                 *)
(***************************************************************************)
UserTexts == { <<>>, <<"h">> }
AppResponses == { <<"a">> }
\* User actions are at least two milliseconds apart.
Apart == {2}
TurnModels == {"gemini-2.5-flash", "imagen-4.0-generate-001", "gemini-2.5-flash-image"}
Running == { i \in 1..Len(turns) : turns[i].pc # "done" }
At(pc) == { i \in 1..Len(turns) : turns[i].pc = pc }

(***************************************************************************)
(* Actions.                                                                *)
(***************************************************************************)
Tick ==
    /\ now < MaxClock
    /\ Commit([St EXCEPT !.now = @ + 1])

HandleModelChange(choices) ==
    \E newModel \in choices :
        Run(handleModelChangeF(St, newModel), model # newModel)

HandleFileChange == Run(handleFileChangeF(St), FALSE)

HandleClearStagedFile == Run(handleClearStagedFileF(St), FALSE)

HandleStageImageForEditing ==
    /\ \E i \in 1..Len(messages) : IsSome(messages[i].imageUrl)
    /\ Run(handleStageImageForEditingF(St), FALSE)

\* The three toggle buttons: the search button is disabled unless a chat model
\* is selected, the other two unless the model supports reasoning.
OnToggleSearch ==
    /\ isChatModel(model)
    /\ Run(onToggleSearchF(St), FALSE)

OnToggleThinking ==
    /\ supportsThinking(model)
    /\ Run(onToggleThinkingF(St), FALSE)

OnToggleTurbo ==
    /\ supportsThinking(model)
    /\ Run(onToggleTurboF(St), FALSE)

HandleLoadChatClick ==
    \E k \in 1..Len(chatHistory) :
        Run(handleLoadChatClickF(St, chatHistory[k].id), FALSE)

HandleNewChat == Run(handleNewChatF(St), TRUE)

\* The clock at a handler's run: dt milliseconds after the previous reading.
Later(s, dt) == [s EXCEPT !.now = @ + dt]

\* A call of handleSendMessage, dt after the previous clock reading: dropped
\* by its guard, or accepted.
HandleSendMessage(elapsed) ==
    \E text \in UserTexts, dt \in elapsed :
        /\ SendRejected(St, text) \/ (Len(turns) < MaxTurns /\ now + dt <= MaxClock)
        /\ IF SendRejected(St, text)
           THEN Run(handleSendMessageF(St, text), FALSE)
           ELSE Commit(RunEffects(St, handleSendMessageF(Later(St, dt), text),
                                  ~IsSome(stagedFile)))

\* fileToDataURL resolves, and the call goes on to its pathway.
FileRead(elapsed) ==
    \E i \in At("read"), dt \in elapsed :
        /\ now + dt <= MaxClock
        /\ Commit(RunEffects(St, BeginF(Later(St, dt), i), TRUE))

\* fileToDataURL rejects: the await is outside the try block, so the call
\* ends with an unhandled rejection.
FileReadFail ==
    \E i \in At("read") :
        Run([St EXCEPT !.turns[i] = DoneTurn, !.uncaught = TRUE], FALSE)

AspectRatio == {"1:1", "16:9", "9:16", "4:3", "3:4"}

\* The aspect ratio control, shown while the image-generation model is selected.
SetAspectRatio(choices) ==
    \E ratio \in choices :
        /\ model = "imagen-4.0-generate-001"
        /\ Run([St EXCEPT !.aspectRatio = ratio], FALSE)

EditDoneStep(i, image, description, outcome) ==
    /\ turns[i].pc = "edit"
    /\ Run(EditDoneF(St, i, image, description,
                     generatePostTaskSuggestions(aiRef, outcome)), TRUE)

EditDone(outcomes) ==
    \E i \in At("edit") :
        \E image \in {None, Some(GeneratedDataUrl)}, description \in Descriptions,
           outcome \in outcomes :
            EditDoneStep(i, image, description, outcome)

ImgOptStep(i, enhanced) ==
    /\ turns[i].pc = "img_opt"
    /\ Run(ImgOptDoneF(St, i, enhanced), TRUE)

ImgOptDone ==
    \E i \in At("img_opt") :
        \E enhanced \in { <<>>, <<"e">> } :
            ImgOptStep(i, enhanced)

ImgGenStep(i, image, outcome) ==
    /\ turns[i].pc = "img_gen"
    /\ Run(ImgGenDoneF(St, i, image,
                       generatePostTaskSuggestions(aiRef, outcome)), TRUE)

ImgGenDone(outcomes) ==
    \E i \in At("img_gen") :
        \E image \in {None, Some(GeneratedDataUrl)}, outcome \in outcomes :
            ImgGenStep(i, image, outcome)

ChatOpen ==
    \E i \in At("chat_open") :
        \E response \in AppResponses, native \in 0..MaxNative :
            Run(ChatOpenF(St, i, response, native), FALSE)

StreamChunkStep(i, k, withThought) ==
    /\ turns[i].pc = "chat_stream"
    /\ k <= Len(turns[i].response) - turns[i].delivered
    /\ k > 0 \/ withThought
    /\ withThought => turns[i].native > 0
    /\ Run(StreamChunkF(St, i, k, withThought), TRUE)

StreamChunk ==
    \E i \in At("chat_stream") :
        \E k \in 0..(Len(turns[i].response) - turns[i].delivered),
           withThought \in BOOLEAN :
            StreamChunkStep(i, k, withThought)

StreamEndStep(i) ==
    /\ turns[i].pc = "chat_stream"
    /\ turns[i].delivered = Len(turns[i].response)
    /\ turns[i].native = 0
    /\ Run(StreamEndF(St, i), TRUE)

StreamEnd == \E i \in At("chat_stream") : StreamEndStep(i)

\* Mutant: the busy flag is cleared at the end of the try block only, so a
\* throw leaves it set.
PathwayFailKeepsBusy ==
    \E i \in Running :
        /\ turns[i].pc \in {"edit", "img_gen", "chat_open", "chat_stream"}
        /\ Run([CatchF(St, i) EXCEPT !.turns[i] = DoneTurn], TRUE)

\* A provider call or the stream throws inside the try block.
PathwayFail ==
    \E i \in Running :
        /\ turns[i].pc \in {"edit", "img_gen", "chat_open", "chat_stream"}
        /\ Run(FinallyF(CatchF(St, i), i), TRUE)

\* The save timer fires.
PersistTimerStep(primaryOk, fallbackOk) ==
    /\ saveTimer # <<>>
    /\ Commit(PersistF(St, primaryOk, fallbackOk))

PersistTimer ==
    \E primaryOk \in BOOLEAN, fallbackOk \in BOOLEAN :
        PersistTimerStep(primaryOk, fallbackOk)

(***************************************************************************)
(* The turn pipeline under the handlers that interleave with it.           *)
(***************************************************************************)
Next ==
    \/ HandleModelChange(TurnModels)
    \/ HandleFileChange
    \/ HandleLoadChatClick
    \/ HandleNewChat
    \/ HandleSendMessage(Apart)
    \/ FileRead(Apart)
    \/ EditDone(PostTaskOutcomes)
    \/ ImgOptDone
    \/ ImgGenDone(PostTaskOutcomes)
    \/ ChatOpen
    \/ StreamChunk
    \/ StreamEnd
    \/ PathwayFail

Spec == Init /\ [][Next]_vars

(***************************************************************************)
(* The configuration under the toggles, the model selector and the         *)
(* sidebar, starting from a history that an earlier run has stored.        *)
(***************************************************************************)
\* A handler's run as a function of the state.
After(s, new, touched) == RunEffects(s, new, touched)

\* One whole chat turn without an attachment, answered by `response` in one
\* chunk, run from state s.
ChatTurn(s, text, response) ==
    LET s1 == After(s, handleSendMessageF(Later(s, 2), text), TRUE)
        i  == Len(s1.turns)
        s2 == After(s1, ChatOpenF(s1, i, response, 0), FALSE)
        s3 == After(s2, StreamChunkF(s2, i, Len(response), FALSE), TRUE)
    IN  After(s3, StreamEndF(s3, i), TRUE)

\* The histories an earlier run may have left in the store: none, one
\* session, two sessions.
OneSession == ChatTurn(MountState(TRUE), <<"h">>, <<"a">>)
TwoSessions ==
    ChatTurn(After(OneSession, handleNewChatF(OneSession), TRUE), <<"g">>, <<"b">>)
StoredHistories ==
    { <<>>, safeHistory(OneSession.chatHistory), safeHistory(TwoSessions.chatHistory) }

\* Mount with a stored history: it is parsed into chatHistory.
MountWith(hasKey, stored) ==
    [MountState(hasKey) EXCEPT
        !.now = MaxClock - 2,
        !.chatHistory = stored,
        !.saveTimer = RestartTimer(@, stored),
        !.localStorage = IF stored = <<>> THEN None ELSE Some(stored)]

ConfigInit ==
    \E hasKey \in BOOLEAN, stored \in StoredHistories :
        StateIs(MountWith(hasKey, stored))

ConfigNext ==
    \/ HandleModelChange(ModelType)
    \/ OnToggleSearch
    \/ OnToggleThinking
    \/ OnToggleTurbo
    \/ HandleLoadChatClick
    \/ HandleNewChat

ConfigSpec == ConfigInit /\ [][ConfigNext]_vars

(***************************************************************************)
(* The persistence effect under turns that change the history.             *)
(***************************************************************************)
PersistNext ==
    \/ HandleFileChange
    \/ HandleSendMessage(Apart)
    \/ FileRead(Apart)
    \/ ChatOpen
    \/ StreamChunk
    \/ StreamEnd
    \/ HandleNewChat
    \/ PersistTimer

PersistSpec == Init /\ [][PersistNext]_vars

(***************************************************************************)
(* The stream loop and the stream's end on the responses a provider may    *)
(* send, cut into chunks in every way.                                     *)
(***************************************************************************)
Repeat(c, n) == [ i \in 1..n |-> c ]
Pieces(c) == { Repeat(c, n) : n \in 0..MaxPiece }

\* Responses with one well-formed pair of tags.
TaggedResponses ==
    { pre \o OpenTag \o mid \o CloseTag \o post :
        pre \in Pieces("p"), mid \in Pieces("m"), post \in Pieces("q") }

RECURSIVE JoinLines(_)
JoinLines(lines) ==
    IF lines = <<>> THEN <<>>
    ELSE Newline \o Head(lines) \o JoinLines(Tail(lines))

SuggestionLines ==
    UNION { [1..n -> { <<"x">>, <<" ">>, <<>> }] : n \in 0..MaxSuggestLines }

Answers == { <<>>, <<"A">>, <<" ", "A", "\n">> }

\* Responses with a suggestions block, and responses without the sentinel.
SuggestionResponses ==
    { a \o SuggestionsSentinel \o JoinLines(l) : a \in Answers, l \in SuggestionLines }
    \cup Answers

\* A turn on gemini-2.5-flash at the start of its stream.
StreamStart(thinking, response) ==
    LET s0 == MountState(TRUE)
        s1 == IF thinking THEN After(s0, onToggleThinkingF(s0), FALSE) ELSE s0
        s2 == After(s1, handleSendMessageF(Later(s1, 2), <<"h">>), TRUE)
    IN  After(s2, ChatOpenF(s2, 1, response, 0), FALSE)

ParserInit ==
    \/ \E response \in TaggedResponses : StateIs(StreamStart(TRUE, response))
    \/ \E response \in SuggestionResponses : StateIs(StreamStart(FALSE, response))

ParserNext ==
    \/ StreamChunk
    \/ StreamEnd

ParserSpec == ParserInit /\ [][ParserNext]_vars

(***************************************************************************)
(* Properties.                                                             *)
(***************************************************************************)
\* The message of the timeline msgs that carries id.
BotMessages(msgs, id) == { i \in 1..Len(msgs) : msgs[i].id = id }

\* C1: a call to handleSendMessage made while isLoading is true is dropped:
\* whatever the text, the call leaves the whole state as it was, so the
\* timeline gets no user message and no second placeholder, and no call
\* record is kept for later.
C1_SendWhileLoadingDropped ==
    isLoading =>
        \A text \in UserTexts :
            RunEffects(St, handleSendMessageF(St, text), FALSE) = St

\* C1 witness: a turn is in flight with its placeholder streaming, the busy
\* flag is set, and a send with a non-empty text is rejected there.
C1_Witness ==
    /\ isLoading
    /\ Running # {}
    /\ \E i \in 1..Len(messages) : messages[i].isStreaming = Some(TRUE)
    /\ SendRejected(St, <<"h">>)

\* C2: isThinkingEnabled and isTurboEnabled are never both true, and turning
\* one on leaves it on with the other off.
C2_TogglesExclusive ==
    /\ ~(isThinkingEnabled /\ isTurboEnabled)
    /\ ~isThinkingEnabled =>
          LET s == RunEffects(St, onToggleThinkingF(St), FALSE)
          IN  s.isThinkingEnabled /\ ~s.isTurboEnabled
    /\ ~isTurboEnabled =>
          LET s == RunEffects(St, onToggleTurboF(St), FALSE)
          IN  s.isTurboEnabled /\ ~s.isThinkingEnabled

\* C2 witness: turbo has been turned on and reasoning is off, with search on
\* and a stored session loaded into the timeline.
C2_Witness ==
    /\ isTurboEnabled
    /\ ~isThinkingEnabled
    /\ isSearchEnabled
    /\ messages # <<>>

ReasoningModels ==
    {"gemini-2.5-flash", "gemini-3-pro-preview", "gemini-flash-lite-latest"}

\* The budget of the chat configuration in use.
CurrentBudget == Get(chatRef).config.thinkingBudget

\* C6: while a chat model is selected, the configuration of the chat session
\* has, with reasoning on and turbo off on a model that supports reasoning,
\* the budget 16000 for gemini-3-pro-preview and 8192 for the other models,
\* and with both reasoning and turbo off no budget at all.
C6_ReasoningBudget ==
    (IsSome(chatRef) /\ model \in chatModels) =>
        /\ (isThinkingEnabled /\ ~isTurboEnabled /\ model \in ReasoningModels) =>
              CurrentBudget =
                  Some(IF model = "gemini-3-pro-preview" THEN 16000 ELSE 8192)
        /\ (~isThinkingEnabled /\ ~isTurboEnabled) => CurrentBudget = None

\* C6 witness: a configuration built with reasoning on for gemini-3-pro-preview.
C6_Witness ==
    /\ IsSome(chatRef)
    /\ model = "gemini-3-pro-preview"
    /\ isThinkingEnabled
    /\ ~isTurboEnabled
    /\ Get(chatRef).model = "gemini-3-pro-preview"
    /\ CurrentBudget = Some(16000)

WellFormed(r) ==
    LET o == IndexOf(r, OpenTag)
        c == IndexOf(r, CloseTag)
    IN  /\ o > 0
        /\ c >= o + Len(OpenTag)
        /\ ~Includes(From(r, o + Len(OpenTag)), OpenTag)
        /\ ~Includes(From(r, c + Len(CloseTag)), CloseTag)

\* The text of r strictly between its tag pair, and the text outside of it.
Between(r) ==
    SubSeq(r, IndexOf(r, OpenTag) + Len(OpenTag), IndexOf(r, CloseTag) - 1)
Outside(r) ==
    SubSeq(r, 1, IndexOf(r, OpenTag) - 1)
        \o From(r, IndexOf(r, CloseTag) + Len(CloseTag))

\* C3: when the whole of a response with one well-formed tag pair has been
\* delivered, however it was cut into fragments, the reasoning accumulator is
\* the text between the tags and the answer accumulator is the text outside
\* of them.
C3_TagSplitExact ==
    \A i \in At("chat_stream") :
        LET t == turns[i]
        IN  (t.isThinkingEnabled /\ t.delivered = Len(t.response)
                /\ WellFormed(t.response)) =>
                /\ t.fullThinkingText = Between(t.response)
                /\ t.fullResponseText = Outside(t.response)

\* The non-blank lines of the text that follows the first sentinel in acc.
LinesAfterSentinel(acc) ==
    LET at == IndexOf(acc, SuggestionsSentinel)
    IN  FilterNonBlank(Split(Trim(From(acc, at + Len(SuggestionsSentinel))),
                             Newline))

\* The suggestions field that stands for the list lines.
HoldsSuggestions(field, lines) ==
    IF lines = <<>> THEN field \in {None, Some(<<>>)} ELSE field = Some(lines)

\* C4: at the end of a stream whose answer accumulator holds the sentinel, the
\* message's text becomes the trimmed text before the sentinel and its
\* suggestions the non-blank lines after it, in order and at most three.
C4_SuggestionsCapped ==
    [][\A i \in 1..Len(turns) :
          (StreamEndStep(i) /\ Includes(turns[i].fullResponseText, SuggestionsSentinel)) =>
              LET acc == turns[i].fullResponseText
                  at == IndexOf(acc, SuggestionsSentinel)
              IN  \A k \in BotMessages(messages', turns[i].botMessageId) :
                      /\ (messages')[k].text = Trim(SubSeq(acc, 1, at - 1))
                      /\ HoldsSuggestions((messages')[k].suggestions,
                                          Take(LinesAfterSentinel(acc), 3))]_vars

\* t is s without its leading and trailing whitespace.
IsTrimOf(t, s) ==
    \E i, j \in 0..Len(s) :
        /\ i + j <= Len(s)
        /\ t = SubSeq(s, i + 1, Len(s) - j)
        /\ \A k \in 1..i : IsWhitespace(s[k])
        /\ \A k \in (Len(s) - j + 1)..Len(s) : IsWhitespace(s[k])
        /\ t # <<>> => (~IsWhitespace(t[1]) /\ ~IsWhitespace(t[Len(t)]))
        /\ t = <<>> => i + j = Len(s)

\* C5 as claimed: at the end of a stream whose answer accumulator does not
\* hold the sentinel, the suggestions are unset or empty and the text is the
\* accumulator verbatim.
C5_NoSentinelVerbatim ==
    [][\A i \in 1..Len(turns) :
          (StreamEndStep(i) /\ ~Includes(turns[i].fullResponseText, SuggestionsSentinel)) =>
              \A k \in BotMessages(messages', turns[i].botMessageId) :
                  /\ (messages')[k].suggestions \in {None, Some(<<>>)}
                  /\ (messages')[k].text = turns[i].fullResponseText]_vars

\* C5 amended: at the end of a stream whose answer accumulator does not hold
\* the sentinel, the suggestions are unset and the text is the accumulator
\* without its leading and trailing whitespace.
C5_NoSentinelTrimmed ==
    [][\A i \in 1..Len(turns) :
          (StreamEndStep(i) /\ ~Includes(turns[i].fullResponseText, SuggestionsSentinel)) =>
              \A k \in BotMessages(messages', turns[i].botMessageId) :
                  /\ (messages')[k].suggestions = None
                  /\ IsTrimOf((messages')[k].text, turns[i].fullResponseText)]_vars

\* C5 witness: a stream ended on an accumulator without the sentinel and with
\* whitespace around the answer; the message has the trimmed answer and no
\* suggestions.
C5_Witness ==
    /\ Running = {}
    /\ Len(turns) = 1
    /\ fullTextRef = <<" ", "A", "\n">>
    /\ \E k \in 1..Len(messages) :
          /\ messages[k].sender = "bot"
          /\ messages[k].isStreaming = Some(FALSE)
          /\ messages[k].text = <<"A">>
          /\ messages[k].suggestions = None

\* C8: a run of the persistence timer in which the primary write and the
\* fallback write both fail lets no error escape and leaves the timeline, the
\* history and the active session id as they were.
C8_PersistFailureAbsorbed ==
    [][PersistTimerStep(FALSE, FALSE) =>
          /\ uncaught' = uncaught
          /\ messages' = messages
          /\ chatHistory' = chatHistory
          /\ activeChatId' = activeChatId
          /\ localStorage' = localStorage]_vars

\* C8 witness: the timer has run over a non-empty history and the store holds
\* nothing, so both writes failed.
C8_Witness ==
    /\ saveTimer = <<>>
    /\ localStorage = None
    /\ chatHistory # <<>>
    /\ ~uncaught

\* What a click on the stored session id must leave behind; rebuilt says in
\* which states the chat is re-created.
Loaded(id, rebuilt) ==
    LET session == chatHistory[FindSession(chatHistory, id)]
    IN  /\ activeChatId' = Some(id)
        /\ messages' = session.messages
        /\ IF rebuilt
           THEN /\ IsSome(chatRef')
                /\ Len(Get(chatRef').history) = Len(session.messages)
                /\ \A n \in 1..Len(session.messages) :
                      /\ Get(chatRef').history[n].text = session.messages[n].text
                      /\ Get(chatRef').history[n].role =
                            IF session.messages[n].sender = "user"
                            THEN "user" ELSE "model"
           ELSE chatRef' = chatRef

\* A click in the sidebar on a stored session that is not the active one.
LoadStep(id) ==
    /\ activeChatId # Some(id)
    /\ Run(handleLoadChatClickF(St, id), FALSE)

\* C9 as claimed: loading a stored session makes it the active one, makes its
\* messages the timeline, and re-creates the chat with one {role, text} entry
\* per message of the session, whichever model is selected (the provider
\* client being there).
C9_LoadRecreatesChatAlways ==
    [][\A k \in 1..Len(chatHistory) :
          (aiRef /\ LoadStep(chatHistory[k].id)) =>
              Loaded(chatHistory[k].id, TRUE)]_vars

\* C9 amended: loading a stored session makes it the active one and makes its
\* messages the timeline; the chat is re-created with one {role, text} entry
\* per message when the client exists and a chat model is selected, and is
\* left as it was otherwise.
C9_LoadRecreatesChat ==
    [][\A k \in 1..Len(chatHistory) :
          LoadStep(chatHistory[k].id) =>
              Loaded(chatHistory[k].id, aiRef /\ model \in chatModels)]_vars

\* C9 witness: the older of two stored sessions has been loaded: it is the
\* active one, the timeline is its messages and the chat holds its history.
C9_Witness ==
    /\ Len(chatHistory) = 2
    /\ \E k \in 1..2 :
          /\ activeChatId = Some(chatHistory[k].id)
          /\ \A j \in 1..2 : chatHistory[j].timestamp >= chatHistory[k].timestamp
          /\ chatHistory[3 - k].timestamp > chatHistory[k].timestamp
          /\ messages = chatHistory[k].messages
          /\ IsSome(chatRef)
          /\ Len(Get(chatRef).history) = Len(messages)
          /\ Len(messages) >= 2
    /\ Running = {}

\* C10: at most one turn runs at a time.
C10_SingleFlight == Cardinality(Running) <= 1

\* The call of handleSendMessage with record i has, in this step, gone past
\* setIsLoading(true): it was accepted without an attachment, or its
\* attachment has been read.
Began(i) ==
    /\ i > Len(turns) \/ turns[i].pc = "read"
    /\ turns'[i].pc # "read"

\* C11: no message stays streaming after its turn is over: when no call of
\* handleSendMessage is running, no message of the timeline has isStreaming
\* true.
C11_NoStreamingAfterTurn ==
    Running = {} =>
        \A k \in 1..Len(messages) : messages[k].isStreaming # Some(TRUE)

\* The awaits of the three pathways: image edit, image generation (prompt
\* optimisation, then generation), streaming chat.
PathwayStarts == {"edit", "img_opt", "chat_open"}

\* C13: every accepted turn with an initialized client runs one of the three
\* pathways: when the call goes past its placeholder it is at the first await
\* of the image-edit, the image-generation or the chat pathway.
C13_OnePathway ==
    [][\A i \in 1..Len(turns') :
          (aiRef /\ Began(i)) => turns'[i].pc \in PathwayStarts]_vars

(***************************************************************************)
(* The stream loop under failures of the stream.                           *)
(***************************************************************************)
\* The call with record i throws inside the try block.
FailStep(i) ==
    /\ turns[i].pc \in {"edit", "img_gen", "chat_open", "chat_stream"}
    /\ Run(FinallyF(CatchF(St, i), i), TRUE)

FailureNext ==
    \/ StreamChunk
    \/ StreamEnd
    \/ PathwayFail

FailureSpec == ParserInit /\ [][FailureNext]_vars

\* C12: when a pathway fails, the placeholder becomes a non-streaming message
\* that carries the apology, and nothing accumulated is lost: the answer text
\* the message showed before the failure is still part of its text, and its
\* reasoning trace is unchanged.
C12_FailureKeepsContent ==
    [][\A i \in 1..Len(turns) :
          FailStep(i) =>
              \A k \in BotMessages(messages, turns[i].botMessageId) :
                  /\ (messages')[k].isStreaming = Some(FALSE)
                  /\ Includes((messages')[k].text, ApologyText)
                  /\ messages[k].text = <<>>
                        \/ Includes((messages')[k].text, messages[k].text)
                  /\ (messages')[k].thinkingText = messages[k].thinkingText]_vars

EditModel == "gemini-2.5-flash-image"

\* C14: with a client, a call made without an attachment takes the image-edit
\* pathway exactly when the model is the image-editing model and a previously
\* generated image exists, and then sends that image; a call made with an
\* attachment captures the model and the file, and after the file is read it
\* takes the image-edit pathway exactly when the model it captured is the
\* image-editing model, and then sends the attachment.
C14_EditSelection ==
    [][\A i \in 1..Len(turns') :
          /\ (aiRef /\ i > Len(turns) /\ turns'[i].pc # "read") =>
                /\ stagedFile = None
                /\ turns'[i].pc = "edit" <=>
                      (model = EditModel /\ IsSome(lastGeneratedImage))
                /\ turns'[i].pc = "edit" =>
                      imagePart(turns'[i]) = lastGeneratedImage
          /\ (i > Len(turns) /\ turns'[i].pc = "read") =>
                /\ IsSome(stagedFile)
                /\ turns'[i].model = model
                /\ turns'[i].fileToSend
          /\ (aiRef /\ i <= Len(turns) /\ Began(i)) =>
                /\ turns[i].fileToSend
                /\ turns'[i].pc = "edit" <=> turns[i].model = EditModel
                /\ turns'[i].pc = "edit" =>
                      imagePart(turns'[i]) = Some(TheFile)]_vars

\* C14 witness: after an earlier turn produced an image, a call made without
\* an attachment is in the image-edit pathway with that image as reference.
C14_Witness ==
    \E i \in At("edit") :
        /\ ~turns[i].fileToSend
        /\ turns[i].continuousEditImage = Some(GeneratedDataUrl)
        /\ turns[i].model = EditModel
        /\ \E j \in 1..Len(turns) : j < i /\ turns[j].pc = "done"

ToolsOf(s) == Get(s.chatRef).config.tools

\* C16: while a chat model is selected, the configuration in use has exactly
\* the web-search tool when search is on and no tool when it is off, and a
\* change of the reasoning or the turbo toggle rebuilds it with the same
\* tools.
C16_SearchTool ==
    (IsSome(chatRef) /\ model \in chatModels) =>
        /\ ToolsOf(St) = IF isSearchEnabled THEN <<"googleSearch">> ELSE <<>>
        /\ ToolsOf(RunEffects(St, onToggleThinkingF(St), FALSE)) = ToolsOf(St)
        /\ ToolsOf(RunEffects(St, onToggleTurboF(St), FALSE)) = ToolsOf(St)

\* C16 witness: a configuration built with search on and turbo on has the
\* web-search tool.
C16_Witness ==
    /\ IsSome(chatRef)
    /\ model \in chatModels
    /\ isSearchEnabled
    /\ isTurboEnabled
    /\ ToolsOf(St) = <<"googleSearch">>

TitleTexts ==
    { <<"h">>, Repeat("h", TitleLength), Repeat("h", TitleLength + 1) }

\* A call of handleSendMessage that is accepted, with a text of `texts`.
HandleSendText(texts, elapsed) ==
    \E text \in texts, dt \in elapsed :
        /\ ~SendRejected(St, text)
        /\ Len(turns) < MaxTurns
        /\ now + dt <= MaxClock
        /\ Commit(RunEffects(St, handleSendMessageF(Later(St, dt), text),
                             ~IsSome(stagedFile)))

SessionNext ==
    \/ HandleSendText(TitleTexts, Apart)
    \/ ChatOpen
    \/ StreamChunk
    \/ StreamEnd
    \/ PathwayFail
    \/ HandleLoadChatClick
    \/ HandleNewChat

SessionSpec == ConfigInit /\ [][SessionNext]_vars

HasUserMessage(msgs) == \E k \in 1..Len(msgs) : msgs[k].sender = "user"

FirstUserText(msgs) ==
    msgs[CHOOSE k \in 1..Len(msgs) :
            /\ msgs[k].sender = "user"
            /\ \A j \in 1..(k - 1) : msgs[j].sender # "user"].text

\* C18: the state never rests with no active session, no turn loading and a
\* user message in the timeline; and whenever the session list grows, no
\* session was active, no turn is loading, exactly one session is appended
\* to the list, it holds the timeline, its title is the first user message's
\* text, cut to 40 characters with '...' appended when it is longer, and it
\* is the active session.
C18_SessionCreated ==
    /\ [](~(activeChatId = None /\ ~isLoading /\ HasUserMessage(messages)))
    /\ [][Len(chatHistory') # Len(chatHistory) =>
            LET n == Len(chatHistory')
                new == (chatHistory')[n]
                first == FirstUserText(messages')
            IN  /\ n = Len(chatHistory) + 1
                /\ SubSeq(chatHistory', 1, n - 1) = chatHistory
                /\ activeChatId = None
                /\ ~isLoading'
                /\ HasUserMessage(messages')
                /\ new.messages = messages'
                /\ new.title = IF Len(first) > 40
                               THEN SubSeq(first, 1, 40) \o <<".", ".", ".">>
                               ELSE first
                /\ activeChatId' = Some(new.id)]_vars

\* C18 witness: beside a stored session, a session was created for a first
\* message longer than the title: it has the cut title and is active.
C18_Witness ==
    /\ Len(chatHistory) >= 2
    /\ LET new == chatHistory[Len(chatHistory)]
       IN  /\ activeChatId = Some(new.id)
           /\ new.messages = messages
           /\ Len(new.title) = TitleLength + 3
           /\ Len(FirstUserText(messages)) = TitleLength + 1
    /\ ~isLoading

\* C20: a step changes a session of the list only if it is the active session
\* and its stored messages differ from the timeline, and then only to give it
\* the timeline as messages and the clock as timestamp; so with a timeline
\* equal to the active session's messages the list is unchanged, and no other
\* session is touched.
C20_SessionUpdate ==
    [][\A k \in 1..Len(chatHistory) :
          (k <= Len(chatHistory') /\ (chatHistory')[k] # chatHistory[k]) =>
              /\ activeChatId' = Some(chatHistory[k].id)
              /\ chatHistory[k].messages # messages'
              /\ (chatHistory')[k] =
                    [chatHistory[k] EXCEPT !.messages = messages',
                                           !.timestamp = now']]_vars

\* C20 witness: of two stored sessions one was loaded and a turn was added to
\* it: it holds the longer timeline and a later timestamp, the other session
\* is as it was stored.
C20_Witness ==
    /\ Len(chatHistory) = 2
    /\ ~isLoading
    /\ \E k \in 1..2 :
          /\ activeChatId = Some(chatHistory[k].id)
          /\ chatHistory[k].messages = messages
          /\ Len(messages) = 4
          /\ chatHistory[k].timestamp = now
          /\ chatHistory[k].timestamp > chatHistory[k].id
          /\ chatHistory[3 - k] = safeHistory(TwoSessions.chatHistory)[3 - k]

\* C19: a per-fragment update of the timeline by a turn in flight leaves the
\* session list as it is: no session is created and no session's messages or
\* timestamp change.
C19_NoWriteInFlight ==
    [][\A i \in 1..Len(turns) :
          (\E k \in 0..Len(turns[i].response), withThought \in BOOLEAN :
                StreamChunkStep(i, k, withThought)) =>
              chatHistory' = chatHistory]_vars

(***************************************************************************)
(* The session list and the store, from a stored history with one session  *)
(* more than the fallback keeps.                                           *)
(***************************************************************************)
\* Sessions of earlier runs, in the order they were created, the n-th made
\* and last written at clock n.
ManySessions ==
    [ n \in 1..(FallbackKeep + 1) |->
        [safeHistory(OneSession.chatHistory)[1] EXCEPT !.id = n, !.timestamp = n] ]

StoreInit ==
    \E hasKey \in BOOLEAN : StateIs(MountWith(hasKey, ManySessions))

StoreNext ==
    \/ HandleModelChange(TurnModels)
    \/ HandleLoadChatClick
    \/ HandleNewChat
    \/ HandleSendMessage(Apart)
    \/ ChatOpen
    \/ StreamChunk
    \/ StreamEnd
    \/ PersistTimer

StoreSpec == StoreInit /\ [][StoreNext]_vars

\* The ids of the sessions of a list.
Ids(hist) == { hist[k].id : k \in 1..Len(hist) }

\* C21: no step removes a session id from the session list in memory; and a
\* persistence cycle whose primary write is accepted stores every session of
\* the list, so the stored copy is shorter only after a rejected write.
C21_NoSessionLost ==
    [][/\ Ids(chatHistory) \subseteq Ids(chatHistory')
       /\ (PersistTimerStep(TRUE, TRUE) \/ PersistTimerStep(TRUE, FALSE)) =>
             /\ IsSome(localStorage')
             /\ Ids(Get(localStorage')) = Ids(chatHistory)]_vars

\* C21 witness: a session was added to the stored ones, the store rejected the
\* full write and holds the trimmed copy, and the list in memory has them all.
C21_Witness ==
    /\ Len(chatHistory) = FallbackKeep + 2
    /\ Ids(ManySessions) \subseteq Ids(chatHistory)
    /\ saveTimer = <<>>
    /\ IsSome(localStorage)
    /\ Len(Get(localStorage)) = FallbackKeep

\* C23: when the store rejects the full write and takes the fallback, the
\* fallback holds at most five sessions and no session it holds has an older
\* timestamp than a session it dropped.
C23_FallbackKeepsMostRecent ==
    [][PersistTimerStep(FALSE, TRUE) =>
          LET written == Get(localStorage')
          IN  /\ Len(written) <= 5
              /\ \A k \in 1..Len(written), d \in 1..Len(chatHistory) :
                    chatHistory[d].id \notin Ids(written) =>
                        written[k].timestamp >= chatHistory[d].timestamp]_vars

\* C24: at most one persistence timer is pending; every change of the session
\* list leaves exactly one pending timer, which holds the changed list; and a
\* timer that fires works on the list as it is then and leaves none pending,
\* so a burst of changes gives one write, of the latest list.
C24_Debounced ==
    /\ [](Len(saveTimer) <= 1)
    /\ [][/\ chatHistory' # chatHistory => saveTimer' = <<chatHistory'>>
          /\ \A primaryOk \in BOOLEAN, fallbackOk \in BOOLEAN :
                PersistTimerStep(primaryOk, fallbackOk) =>
                    /\ Head(saveTimer) = chatHistory
                    /\ saveTimer' = <<>>
                    /\ primaryOk => localStorage' = Some(safeHistory(chatHistory))]_vars

\* C24 witness: the session was created by one turn and changed by a second
\* with no timer firing in between, and the one pending timer holds the list
\* with both turns.
C24_Witness ==
    /\ Len(chatHistory) = 1
    /\ Len(chatHistory[1].messages) = 4
    /\ localStorage = None
    /\ saveTimer = <<chatHistory>>

\* A message has no data URL in its two image fields.
NoPayload(m) ==
    /\ IsSome(m.imageUrl) => ~StartsWithData(Get(m.imageUrl))
    /\ IsSome(m.uploadedImageUrl) => ~StartsWithData(Get(m.uploadedImageUrl))

\* The list written is the list given, session by session and message by
\* message, but for the two image fields.
SameButImages(written, given) ==
    /\ Len(written) = Len(given)
    /\ \A i \in 1..Len(written) :
          /\ [written[i] EXCEPT !.messages = <<>>] = [given[i] EXCEPT !.messages = <<>>]
          /\ Len(written[i].messages) = Len(given[i].messages)
          /\ \A j \in 1..Len(written[i].messages) :
                /\ NoPayload(written[i].messages[j])
                /\ StripImages(written[i].messages[j]) = StripImages(given[i].messages[j])

\* C22: a persistence cycle that writes, by the primary or by the fallback
\* write, stores messages without a data URL and with every other field as in
\* memory, and leaves the timeline and the session list in memory as they were.
C22_StoredWithoutPayload ==
    [][\A primaryOk \in BOOLEAN, fallbackOk \in BOOLEAN :
          PersistTimerStep(primaryOk, fallbackOk) /\ (primaryOk \/ fallbackOk) =>
              /\ IsSome(localStorage')
              /\ SameButImages(Get(localStorage'),
                               IF primaryOk THEN chatHistory
                               ELSE TakeLast(chatHistory, FallbackKeep))
              /\ chatHistory' = chatHistory
              /\ messages' = messages]_vars

\* C22 witness: a session in memory holds a message with an attachment's data
\* URL and the store holds the copy of the list written from it.
C22_Witness ==
    /\ saveTimer = <<>>
    /\ \E i \in 1..Len(chatHistory) : \E j \in 1..Len(chatHistory[i].messages) :
          chatHistory[i].messages[j].uploadedImageUrl = Some(UploadedDataUrl)
    /\ localStorage = Some(safeHistory(chatHistory))

(***************************************************************************)
(* Startup: the mount over every content of the store, then the handlers   *)
(* of the header and the sidebar and the persistence timer.                *)
(***************************************************************************)
StoredTexts == { None, Some(Unparseable) } \cup { Some(h) : h \in StoredHistories \ {<<>>} }

StartupInit == \E stored \in StoredTexts : StateIs(Unmounted(stored))

MountStep(hasKey) ==
    /\ now = 0
    /\ Commit(mountF(St, hasKey))

Mount == \E hasKey \in BOOLEAN : MountStep(hasKey)

StartupNext ==
    \/ Mount
    \/ now > 0 /\ HandleModelChange(ModelType)
    \/ now > 0 /\ OnToggleSearch
    \/ now > 0 /\ OnToggleThinking
    \/ now > 0 /\ OnToggleTurbo
    \/ now > 0 /\ HandleLoadChatClick
    \/ now > 0 /\ HandleNewChat
    \/ now > 0 /\ PersistTimer

StartupSpec == StartupInit /\ [][StartupNext]_vars

\* C25: a mount that finds nothing under the key, or a text that does not
\* parse, leaves an empty session list, lets no error escape, and creates the
\* client and the chat exactly as the API key allows.
C25_StartupTolerant ==
    [][\A hasKey \in BOOLEAN :
          MountStep(hasKey) /\ (localStorage = None \/ ~Parses(Get(localStorage))) =>
              /\ chatHistory' = <<>>
              /\ ~uncaught'
              /\ aiRef' = hasKey
              /\ IsSome(chatRef') = hasKey
              /\ localStorage' = localStorage]_vars

\* C25 witness: the component is mounted over a text that does not parse, with
\* an empty session list, a client and a chat.
C25_Witness ==
    /\ now = 1
    /\ localStorage = Some(Unparseable)
    /\ chatHistory = <<>>
    /\ aiRef
    /\ IsSome(chatRef)
    /\ ~uncaught

(***************************************************************************)
(* The two image pathways, with every outcome of the enhancement and of    *)
(* the suggestion sub-call.                                                *)
(***************************************************************************)
ImageModels == {"imagen-4.0-generate-001", "gemini-2.5-flash-image"}

\* The app with a client, after one of the image models was selected.
ImageInit ==
    \E m \in ImageModels :
        StateIs(After(MountState(TRUE), handleModelChangeF(MountState(TRUE), m), FALSE))

ImageNext ==
    \/ SetAspectRatio({"1:1", "16:9"})
    \/ HandleFileChange
    \/ HandleSendMessage(Apart)
    \/ FileRead(Apart)
    \/ EditDone(PostTaskOutcomes)
    \/ ImgOptDone
    \/ ImgGenDone(PostTaskOutcomes)
    \/ PathwayFail

ImageSpec == ImageInit /\ [][ImageNext]_vars

\* The suggestion sub-call throws, or answers with a text of up to
\* MaxSuggestLines lines after an empty one, the first of them blank or not.
ImageOutcomes ==
    { None } \cup
    { Some(JoinLines([ k \in 1..n |-> IF k = blank THEN <<" ">> ELSE <<"x">> ])) :
        n \in 0..MaxSuggestLines, blank \in 0..1 }

SuggestNext ==
    \/ HandleFileChange
    \/ HandleSendMessage(Apart)
    \/ FileRead(Apart)
    \/ EditDone(ImageOutcomes)
    \/ ImgOptDone
    \/ ImgGenDone(ImageOutcomes)

SuggestSpec == ImageInit /\ [][SuggestNext]_vars

\* C26: when the prompt-enhancement sub-call fails or returns nothing, the
\* call goes on to the generation request, whose prompt is the user's text and
\* whose aspect ratio is the one that was selected when the message was sent;
\* no error escapes, the busy flag stays and the placeholder stays a streaming
\* message that is not the apology.
C26_EnhancementSilent ==
    [][/\ \A i \in 1..Len(turns') :
             i > Len(turns) => turns'[i].aspectRatio = aspectRatio
       /\ \A i \in 1..Len(turns) :
             ImgOptStep(i, <<>>) =>
                 /\ turns'[i].pc = "img_gen"
                 /\ GenerateImagesRequest(turns'[i]).prompt = turns[i].text
                 /\ GenerateImagesRequest(turns'[i]).aspectRatio = turns[i].aspectRatio
                 /\ uncaught' = uncaught
                 /\ isLoading' = isLoading
                 /\ \A k \in BotMessages(messages', turns[i].botMessageId) :
                       /\ messages'[k].isStreaming = Some(TRUE)
                       /\ messages'[k].text # ApologyText]_vars

\* C26 witness: a call sent with the aspect ratio 16:9 is at its generation
\* request with the user's text as prompt.
C26_Witness ==
    \E i \in 1..Len(turns) :
        /\ turns[i].pc = "img_gen"
        /\ turns[i].text = <<"h">>
        /\ GenerateImagesRequest(turns[i]).prompt = <<"h">>
        /\ GenerateImagesRequest(turns[i]).aspectRatio = "16:9"

\* C27: the suggestion sub-call gives at most three strings, none of them
\* blank, and none at all when the provider call throws, when the response has
\* no text and when there is no client; whatever it gives, the image turn ends
\* with its image, isStreaming false, no apology and no escaped error.
C27_SuggestionsBestEffort ==
    [][\A i \in 1..Len(turns) :
          turns[i].pc \in {"img_gen", "edit"} =>
          \A image \in {None, Some(GeneratedDataUrl)}, outcome \in ImageOutcomes :
          /\ generatePostTaskSuggestions(FALSE, outcome) = <<>>
          /\ (\/ ImgGenStep(i, image, outcome)
              \/ \E description \in Descriptions :
                    EditDoneStep(i, image, description, outcome)) =>
                 /\ uncaught' = uncaught
                 /\ \A k \in BotMessages(messages', turns[i].botMessageId) :
                       LET m == messages'[k]
                           given == Get(m.suggestions)
                       IN  /\ Len(given) <= 3
                           /\ \A n \in 1..Len(given) : NonBlank(given[n])
                           /\ outcome \in {None, Some(<<>>)} => given = <<>>
                           /\ m.isStreaming = Some(FALSE)
                           /\ m.imageUrl = image
                           /\ m.text # ApologyText]_vars

\* C27 witness: two image turns have ended with their images, one with three
\* suggestions and one with none.
C27_Witness ==
    \E a, b \in 1..Len(messages) :
        /\ messages[a].imageUrl = Some(GeneratedDataUrl)
        /\ messages[a].isStreaming = Some(FALSE)
        /\ messages[a].suggestions = Some(<< <<"x">>, <<"x">>, <<"x">> >>)
        /\ messages[b].imageUrl = Some(GeneratedDataUrl)
        /\ messages[b].isStreaming = Some(FALSE)
        /\ messages[b].suggestions = Some(<<>>)

\* C28: a placeholder whose turn has ended, isStreaming being false, has no
\* status label or the empty one.
C28_StatusCleared ==
    \A k \in 1..Len(messages) :
        messages[k].sender = "bot" /\ messages[k].isStreaming = Some(FALSE) =>
            messages[k].statusText \in {None, Some("")}

(***************************************************************************)
(* The status label over answers longer than the threshold, with and       *)
(* without the search and the reasoning toggle.                            *)
(***************************************************************************)
LongAnswer == Repeat("a", StatusThreshold + 1)

StatusResponses == { LongAnswer, OpenTag \o <<"m">> \o CloseTag \o LongAnswer }

\* A turn on gemini-2.5-flash at the start of its stream, sent with the
\* toggles as given.
StatusStart(search, thinking, response) ==
    LET s0 == MountState(TRUE)
        s1 == IF search THEN After(s0, onToggleSearchF(s0), FALSE) ELSE s0
        s2 == IF thinking THEN After(s1, onToggleThinkingF(s1), FALSE) ELSE s1
        s3 == After(s2, handleSendMessageF(Later(s2, 2), <<"h">>), TRUE)
    IN  After(s3, ChatOpenF(s3, 1, response, 0), FALSE)

StatusInit ==
    \E search \in BOOLEAN, thinking \in BOOLEAN, response \in StatusResponses :
        StateIs(StatusStart(search, thinking, response))

StatusNext ==
    \/ StreamChunk
    \/ StreamEnd

StatusSpec == StatusInit /\ [][StatusNext]_vars

\* The label among the four of the list: the search, reasoning without an
\* answer, reasoning without a trace, responding.
ListedLabel(search, reasoning, answer, trace) ==
    IF search THEN "Analyzing sources..."
    ELSE IF reasoning /\ answer = <<>> /\ trace # <<>> THEN "Reasoning..."
    ELSE IF reasoning /\ trace = <<>> THEN "Allocating logic tokens..."
    ELSE "Typing..."

\* The number of characters of the response that a step hands to turn i.
Delivered(i) ==
    IF turns'[i].delivered >= turns[i].delivered
    THEN turns'[i].delivered - turns[i].delivered
    ELSE 0

\* The label the placeholder of turn i carries after a fragment, given by
\* expected(search, reasoning, answer, trace) of what the message then shows.
LabelAfterFragment(i, k, withThought, expected(_, _, _, _)) ==
    StreamChunkStep(i, k, withThought) =>
        \A n \in BotMessages(messages', turns[i].botMessageId) :
            messages'[n].statusText =
                Some(expected(turns[i].isSearchEnabled, turns[i].isThinkingEnabled,
                              messages'[n].text, Get(messages'[n].thinkingText)))

\* C29 as stated: after each fragment the label is the first applicable of
\* the search, reasoning without an answer, reasoning without a trace,
\* responding, and the empty label when the answer is longer than 50, in this
\* order.
C29_StatusListedOrder ==
    [][\A i \in 1..Len(turns), withThought \in BOOLEAN :
          LabelAfterFragment(i, Delivered(i), withThought,
              LAMBDA search, reasoning, answer, trace :
                  IF ~search /\ ~reasoning /\ Len(answer) > 50 THEN ""
                  ELSE ListedLabel(search, reasoning, answer, trace))]_vars

\* C29 amended: after each fragment the label is empty when the answer is
\* longer than 50 characters, whatever the toggles; otherwise it is the first
\* applicable of the search, reasoning without an answer, reasoning without a
\* trace, responding.
C29_StatusPriority ==
    [][\A i \in 1..Len(turns), withThought \in BOOLEAN :
          LabelAfterFragment(i, Delivered(i), withThought,
              LAMBDA search, reasoning, answer, trace :
                  IF Len(answer) > 50 THEN ""
                  ELSE ListedLabel(search, reasoning, answer, trace))]_vars

\* C29 witness: a turn sent with the search on streams an answer longer than
\* 50 characters and its placeholder carries the empty label.
C29_Witness ==
    \E i \in 1..Len(turns) :
        /\ turns[i].pc = "chat_stream"
        /\ turns[i].isSearchEnabled
        /\ \E n \in BotMessages(messages, turns[i].botMessageId) :
              /\ Len(messages[n].text) > 50
              /\ messages[n].statusText = Some("")

IsPrefix(a, b) == Len(a) <= Len(b) /\ SubSeq(b, 1, Len(a)) = a

\* C30: a fragment hands the turn the next characters of the response, and the
\* placeholder's text and thinkingText after the fragment each begin with what
\* they were before it.
C30_AppendOnly ==
    [][\A i \in 1..Len(turns), withThought \in BOOLEAN :
          StreamChunkStep(i, Delivered(i), withThought) =>
              /\ turns'[i].delivered >= turns[i].delivered
              /\ IsPrefix(turns[i].fullResponseText, turns'[i].fullResponseText)
              /\ IsPrefix(turns[i].fullThinkingText, turns'[i].fullThinkingText)
              /\ \A n \in BotMessages(messages, turns[i].botMessageId) :
                    /\ messages'[n].id = messages[n].id
                    /\ IsPrefix(messages[n].text, messages'[n].text)
                    /\ IsPrefix(Get(messages[n].thinkingText),
                                Get(messages'[n].thinkingText))]_vars

\* C30 witness: fragments have given the streaming placeholder an answer and a
\* trace, and more of the response is to come.
C30_Witness ==
    \E i \in 1..Len(turns) :
        /\ turns[i].pc = "chat_stream"
        /\ turns[i].delivered < Len(turns[i].response)
        /\ \E n \in BotMessages(messages, turns[i].botMessageId) :
              /\ messages[n].text # <<>>
              /\ Get(messages[n].thinkingText) # <<>>

(***************************************************************************)
(* Streams that carry native thought parts beside the text, with and       *)
(* without the reasoning toggle.                                           *)
(***************************************************************************)
NativeParts == MaxNative + 1

\* A turn on gemini-2.5-flash at the start of a stream that will carry
\* NativeParts native thought parts.
NativeStart(thinking, response) ==
    LET s0 == MountState(TRUE)
        s1 == IF thinking THEN After(s0, onToggleThinkingF(s0), FALSE) ELSE s0
        s2 == After(s1, handleSendMessageF(Later(s1, 2), <<"h">>), TRUE)
    IN  After(s2, ChatOpenF(s2, 1, response, NativeParts), FALSE)

NativeInit ==
    \E thinking \in BOOLEAN, response \in TaggedResponses :
        StateIs(NativeStart(thinking, response))

NativeNext ==
    \/ StreamChunk
    \/ StreamEnd

NativeSpec == NativeInit /\ [][NativeNext]_vars

\* C31: a chunk that carries a native thought part appends the part's thought
\* to the reasoning accumulator and does nothing else with it: the answer
\* accumulator and the tag state are what the chunk's text part alone, if it
\* has one, makes of them, whether the tag state is inside or outside and
\* whether the reasoning toggle was on or off.
C31_NativeThoughtBypassesTags ==
    [][\A i \in 1..Len(turns) :
          StreamChunkStep(i, Delivered(i), TRUE) =>
              LET t == turns[i]
                  k == Delivered(i)
                  appended == [t EXCEPT !.fullThinkingText = @ \o NativeThought]
                  after == IF k = 0 THEN appended
                           ELSE ParseTextPart(appended,
                                    SubSeq(t.response, t.delivered + 1, t.delivered + k))
              IN  /\ turns'[i].fullThinkingText = after.fullThinkingText
                  /\ turns'[i].fullResponseText = after.fullResponseText
                  /\ turns'[i].isInsideThinkingBlock = after.isInsideThinkingBlock
                  /\ k = 0 =>
                        /\ turns'[i].fullThinkingText = t.fullThinkingText \o NativeThought
                        /\ turns'[i].fullResponseText = t.fullResponseText
                        /\ turns'[i].isInsideThinkingBlock = t.isInsideThinkingBlock]_vars

\* C31 witness: inside a reasoning block a native thought part has arrived
\* and stands at the end of the reasoning accumulator.
C31_Witness ==
    \E i \in 1..Len(turns) :
        /\ turns[i].pc = "chat_stream"
        /\ turns[i].isInsideThinkingBlock
        /\ turns[i].native < NativeParts
        /\ turns[i].fullResponseText = <<>>
        /\ Len(turns[i].fullThinkingText) >= 1
        /\ TakeLast(turns[i].fullThinkingText, 1) = NativeThought

(***************************************************************************)
(* Turns whose clock readings are any distance apart: the same             *)
(* millisecond, the next one, or later.                                    *)
(***************************************************************************)
Elapsed == {0, 1, 2}

TimingInit == StateIs(MountWith(TRUE, <<>>))

TimingNext ==
    \/ HandleFileChange
    \/ HandleSendMessage(Elapsed)
    \/ FileRead(Elapsed)
    \/ ChatOpen
    \/ StreamChunk
    \/ StreamEnd
    \/ PathwayFail

TimingSpec == TimingInit /\ [][TimingNext]_vars

\* C32: a message that has isStreaming = false and is still in the timeline
\* after a step has the text it had before the step.
C32_FinishedTextFrozen ==
    [][\A n \in 1..Len(messages) :
          /\ messages[n].isStreaming = Some(FALSE)
          /\ n <= Len(messages')
          /\ messages'[n].id = messages[n].id
          => messages'[n].text = messages[n].text]_vars

\* C33: the ids of the messages of the timeline are pairwise distinct.
C33_IdsDistinct ==
    \A a \in 1..Len(messages), b \in 1..Len(messages) :
        a # b => messages[a].id # messages[b].id

(***************************************************************************)
(* The model selector and the toggles used while a turn is streaming.      *)
(***************************************************************************)
ReconfigInit ==
    \E thinking \in BOOLEAN : StateIs(StreamStart(thinking, <<"a", "b">>))

ReconfigNext ==
    \/ HandleModelChange(ModelType)
    \/ OnToggleSearch
    \/ OnToggleThinking
    \/ OnToggleTurbo
    \/ StreamChunk
    \/ StreamEnd

ReconfigSpec == ReconfigInit /\ [][ReconfigNext]_vars

\* C34: a step that changes the model or one of the three toggles and leaves a
\* chat model selected, with the client present, leaves a chat whose model and
\* configuration are built from the values after the step and whose history
\* has one entry per message of the timeline after the step, in order, with
\* the message's role and text.
C34_ChatRebuilt ==
    [][(/\ <<model, isSearchEnabled, isThinkingEnabled, isTurboEnabled>>
             # <<model', isSearchEnabled', isThinkingEnabled', isTurboEnabled'>>
        /\ aiRef'
        /\ model' \in chatModels) =>
          /\ IsSome(chatRef')
          /\ LET chat == Get(chatRef')
             IN  /\ chat.model = model'
                 /\ chat.config.cotInstruction = isThinkingEnabled'
                 /\ chat.config.tools =
                       IF isSearchEnabled' THEN <<"googleSearch">> ELSE <<>>
                 /\ chat.config =
                       BuildConfig(model', isSearchEnabled', isThinkingEnabled',
                                   isTurboEnabled')
                 /\ Len(chat.history) = Len(messages')
                 /\ \A n \in 1..Len(messages') :
                       chat.history[n] =
                           [ role |-> IF messages'[n].sender = "user"
                                      THEN "user" ELSE "model",
                             text |-> messages'[n].text ]]_vars

\* C34 witness: search was turned on while the turn was streaming, after its
\* first fragment: the chat has the search tool and the two messages of the
\* timeline as history, the placeholder with the text it has so far.
C34_Witness ==
    /\ Len(turns) = 1
    /\ turns[1].pc = "chat_stream"
    /\ isLoading
    /\ isSearchEnabled
    /\ Len(messages) = 2
    /\ messages[2].text = <<"a">>
    /\ IsSome(chatRef)
    /\ Get(chatRef).config.tools = <<"googleSearch">>
    /\ Len(Get(chatRef).history) = 2
    /\ Get(chatRef).history[2] = [ role |-> "model", text |-> <<"a">> ]

(***************************************************************************)
(* The configuration builder on every model and every value of the three   *)
(* toggles, over the timelines a stored session gives.                     *)
(***************************************************************************)
\* The app before initializeChat is called, with the model, the toggles and
\* the timeline as given.
BeforeBuild(m, search, thinking, turbo, stored) ==
    [MountState(TRUE) EXCEPT
        !.model = m, !.isSearchEnabled = search, !.isThinkingEnabled = thinking,
        !.isTurboEnabled = turbo, !.chatRef = None,
        !.messages = IF stored = <<>> THEN <<>> ELSE stored[Len(stored)].messages]

BuilderInit ==
    \E m \in ModelType, search \in BOOLEAN, thinking \in BOOLEAN, turbo \in BOOLEAN,
       stored \in StoredHistories :
        StateIs(BeforeBuild(m, search, thinking, turbo, stored))

\* initializeChat is called with the timeline as history.
InitializeChatCall ==
    /\ chatRef = None
    /\ Commit(InitializeChat(St, ToContent(messages)))

BuilderNext == InitializeChatCall

BuilderSpec == BuilderInit /\ [][BuilderNext]_vars

(***************************************************************************)
(* The model selector, the toggles, the sidebar and the edit button of a   *)
(* generated image, after an image turn of this run.                       *)
(***************************************************************************)
\* The app after imagen-4.0-generate-001 was selected and one image was
\* generated: the session of that turn is in the list, with its image.
ImageSession ==
    LET s0 == MountState(TRUE)
        s1 == After(s0, handleModelChangeF(s0, "imagen-4.0-generate-001"), TRUE)
        s2 == After(s1, handleSendMessageF(Later(s1, 2), <<"h">>), TRUE)
        s3 == After(s2, ImgOptDoneF(s2, 1, <<>>), TRUE)
    IN  After(s3, ImgGenDoneF(s3, 1, Some(GeneratedDataUrl), <<>>), TRUE)

CompatInit == StateIs(ImageSession)

CompatNext ==
    \/ HandleModelChange(ModelType)
    \/ OnToggleSearch
    \/ OnToggleThinking
    \/ OnToggleTurbo
    \/ HandleLoadChatClick
    \/ HandleNewChat
    \/ HandleStageImageForEditing

CompatSpec == CompatInit /\ [][CompatNext]_vars

\* C35: with a model that does not support reasoning selected, reasoning and
\* turbo are off; with a model that is not a chat model selected, search is
\* off.
C35_TogglesCompatible ==
    /\ ~supportsThinking(model) => ~isThinkingEnabled /\ ~isTurboEnabled
    /\ ~isChatModel(model) => ~isSearchEnabled

\* C36: the active-session pointer is null or the id of a session of the
\* session list.
C36_PointerInList ==
    IsSome(activeChatId) => Get(activeChatId) \in Ids(chatHistory)

\* C36 witness: a turn of this run has created a session beside the stored
\* ones and the pointer is its id.
C36_Witness ==
    /\ IsSome(activeChatId)
    /\ Get(activeChatId) \notin Ids(ManySessions)
    /\ Get(activeChatId) \in Ids(chatHistory)
    /\ Len(chatHistory) = FallbackKeep + 2

(***************************************************************************)
(* Termination of a turn.  Every await of handleSendMessage settles: the   *)
(* file read resolves or rejects, each provider call returns or throws,    *)
(* the stream delivers its fragments and closes.  The user's actions are   *)
(* under no obligation.                                                    *)
(***************************************************************************)
\* The file read may resolve within the millisecond of the call.
ReadElapsed == {0, 2}

\* An await of some running call settles.
Settle ==
    \/ FileReadFail
    \/ PathwayFail
    \/ ImgOptDone
    \/ FileRead(ReadElapsed)
    \/ EditDone(PostTaskOutcomes)
    \/ ImgGenDone(PostTaskOutcomes)
    \/ ChatOpen
    \/ StreamChunk
    \/ StreamEnd

\* The app, with or without a client, after a model was selected.
LiveInit ==
    \E hasKey \in BOOLEAN, m \in TurnModels :
        StateIs(After(MountState(hasKey),
                      handleModelChangeF(MountState(hasKey), m),
                      m # MountState(hasKey).model))

LiveNext ==
    \/ HandleFileChange
    \/ HandleSendMessage(Apart)
    \/ Settle

LiveSpec == LiveInit /\ [][LiveNext]_vars /\ WF_vars(Settle)

\* C37: every accepted call of handleSendMessage ends, and the busy flag is
\* false once it has ended, whether its pathway succeeded or failed.
C37_BusyCleared ==
    \A i \in 1..MaxTurns :
        (i <= Len(turns) /\ turns[i].pc # "done")
            ~> (i <= Len(turns) /\ turns[i].pc = "done" /\ ~isLoading)

\* C37 witness: a first turn has failed, the busy flag was cleared, and a
\* second send has been accepted and is running.
C37_Witness ==
    /\ Len(turns) = 2
    /\ turns[1].pc = "done"
    /\ turns[2].pc \notin {"done", "read"}
    /\ Len(messages) = 4
    /\ messages[2].text = ApologyText
    /\ messages[2].isStreaming = Some(FALSE)
    /\ turns[2].botMessageId = messages[4].id
    /\ turns[2].userMessageId > messages[2].id

\* A call of handleModelChange(newModel) and the effects after it.
ModelChangeStep(newModel) ==
    /\ model' = newModel
    /\ Run(handleModelChangeF(St, newModel), model # newModel)

\* C38: handleModelChange to another model empties the timeline, clears the
\* active-session pointer, the staged attachment, the last generated image
\* and the busy flag, and leaves the session list as it was; to the selected
\* model it changes nothing.
C38_ModelChangeFrame ==
    [][\A newModel \in ModelType :
         ModelChangeStep(newModel) =>
            IF newModel # model
            THEN /\ messages' = <<>>
                 /\ activeChatId' = None
                 /\ stagedFile' = None
                 /\ lastGeneratedImage' = None
                 /\ ~isLoading'
                 /\ chatHistory' = chatHistory
            ELSE UNCHANGED vars]_vars

\* C38 witness: the model was changed while a turn was running, with a session
\* in the list: the timeline is empty, nothing is staged or remembered, the
\* busy flag is off and the turn still runs.
C38_Witness ==
    /\ \E i \in Running : turns[i].model # model /\ turns[i].pc # "read"
    /\ messages = <<>>
    /\ activeChatId = None
    /\ stagedFile = None
    /\ lastGeneratedImage = None
    /\ ~isLoading
    /\ chatHistory # <<>>

====
